---- MODULE Spec2Model ----
(***************************************************************************)
(* Chunked peer-to-peer file transfer of streamlet: the Chunker and the    *)
(* worker manager (src/components/file-worker-manager.tsx), the Assembler  *)
(* (src/workers/file-worker.ts), the transfer registry kept in the        *)
(* activeTransfers state of the share-files page                          *)
(* (src/app/sharefiles/page.tsx) and the data connection                   *)
(* (src/contexts/PeerContext.tsx).                                         *)
(*                                                                         *)
(* Two pages are modelled: peer "A" sends files, peer "B" receives them.   *)
(* Both run the same handleData and the same control handlers.  Every      *)
(* event handler of the page is one atomic action: JavaScript runs a       *)
(* handler to completion and React applies the queued functional state     *)
(* updaters in the order they were queued.                                 *)
(***************************************************************************)
EXTENDS Integers, Sequences, FiniteSets, Bags, TLC

\* ------------------------------------------------------------------ bounds
\* chunkSize of chunkFile, scaled down from 16 * 1024 bytes
ChunkSize == 2
\* number of bytes offered to sendFile, all files together
MaxSize == 3
\* number of sendFile calls
MaxSends == 1
\* number of events besides the plain transfer of one file: deliveries in which
\* the transport keeps a copy (at-least-once), pause / resume / cancel clicks,
\* failed slice reads, the close of the connection, further sendFile calls
MaxEvents == 2
\* last value of the millisecond clock
MaxTime == 1

Peers == {"A", "B"}
Other(p) == IF p = "A" THEN "B" ELSE "A"

\* file names offered to sendFile
Names == {"a.txt"}
\* id of a record before chunkFile has returned: the empty string
NoId == 0
\* value of the binding fileId read before its initialisation, in a build
\* that compiles const to var
Undef == -1
\* pausedAt: undefined
NoTime == -1

\* ------------------------------------------------------------ pure helpers
Min(a, b) == IF a <= b THEN a ELSE b

\* byte i (0-based) of the file called name
ByteOf(name, i) == (Len(name) * 7 + 3 * i + 1) % 256

\* the bytes of a file
Content(name, size) == [i \in 1..size |-> ByteOf(name, i - 1)]

\* bytes [start, end) of a byte sequence: Blob.slice(start, end)
Slice(bytes, start, end) == SubSeq(bytes, start + 1, Min(end, Len(bytes)))

\* a chunk count that rounds down and so leaves out a shorter last chunk
TotalChunksFloor(size, cs) == size \div cs

\* Math.ceil(file.size / chunkSize)
TotalChunks(size, cs) == (size + cs - 1) \div cs

\* the slice processNextChunk reads for chunk number k
ChunkData(bytes, k, cs) == Slice(bytes, k * cs, Min(k * cs + cs, Len(bytes)))

\* progress values are kept as exact fractions num / den (den = 0: NaN)
Pct(k, n) == [num |-> k * 100, den |-> n]
Pct0 == [num |-> 0, den |-> 1]
Pct100 == [num |-> 100, den |-> 1]

\* two progress values are the same number
PctEq(a, b) == a.den # 0 /\ b.den # 0 /\ a.num * b.den = b.num * a.den
\* progress a is at most progress b
PctLeq(a, b) == a.den # 0 /\ b.den # 0 /\ a.num * b.den <= b.num * a.den

\* a Map<number, Uint8Array> is the sequence of its entries <<key, value>> in
\* insertion order, the order in which entries() and values() iterate
EmptyMap == << >>
MapKeys(m) == {m[i][1] : i \in DOMAIN m}
MapGet(m, k) == m[CHOOSE i \in DOMAIN m : m[i][1] = k][2]
\* an insertion that adds an entry whether or not the key is present
MapSetAppend(m, k, v) == Append(m, <<k, v>>)

\* Map.set: a new key is appended, a key already present keeps its place
MapSet(m, k, v) ==
  IF k \in MapKeys(m)
  THEN [i \in DOMAIN m |-> IF m[i][1] = k THEN <<k, v>> ELSE m[i]]
  ELSE Append(m, <<k, v>>)
MapSize(m) == Len(m)

RECURSIVE SortedKeys(_)
\* the keys of a map in increasing order: entries().sort(([a], [b]) => a - b)
SortedKeys(S) ==
  IF S = {} THEN << >>
  ELSE LET lo == CHOOSE x \in S : \A y \in S : x <= y
       IN <<lo>> \o SortedKeys(S \ {lo})

\* the chunks of the map in insertion order, without the sort
UnsortedChunks(m) == [i \in DOMAIN m |-> m[i][2]]

\* processReceivedFile: the chunks of the map ordered by index
SortedChunks(m) ==
  LET ks == SortedKeys(MapKeys(m)) IN [i \in 1..Len(ks) |-> MapGet(m, ks[i])]

RECURSIVE FillFrom(_, _, _, _)
\* assembleFile's loop from chunk number i on: fileData.set(chunk, offset)
\* throws a RangeError when the chunk does not fit in the buffer
FillFrom(buf, chunks, i, offset) ==
  IF i > Len(chunks) THEN [ok |-> TRUE, data |-> buf]
  ELSE IF offset + Len(chunks[i]) > Len(buf) THEN [ok |-> FALSE, data |-> << >>]
  ELSE FillFrom([j \in 1..Len(buf) |->
                   IF j > offset /\ j <= offset + Len(chunks[i])
                   THEN chunks[i][j - offset] ELSE buf[j]],
                chunks, i + 1, offset + Len(chunks[i]))

\* assembleFile: a zero-filled buffer of metadata.size bytes, filled chunk by chunk
assembleFile(chunks, size) == FillFrom([j \in 1..size |-> 0], chunks, 1, 0)


\* ------------------------------------------------------------------- state
VARIABLES
  activeTransfers,  \* per page: the activeTransfers list (useState)
  transferHistory,  \* per page: the transferHistory list (useState)
  localStorage,     \* per page: the item stored under "transferHistory"
  connOpen,         \* the data connection between the two peers is open
  net,              \* per page: the bag of messages in flight towards it
  job,              \* per sendFile call: the closure of chunkFile / processNextChunk
  removeTimers,     \* per page: bag of ids with a pending "filter out this id" timer
  completeTimers,   \* per page: queue of pending 100 ms handleCompleteFileReceived timers
  workerQ,          \* per page: queue of ASSEMBLE_FILE requests posted to the worker
  now,              \* Date.now()
  crashed,          \* page A was unmounted by an exception thrown while rendering
  events,           \* duplicated deliveries, clicks, failed reads and closes so far
  assembleCalls,    \* history: bag of <<page, fileId>>, one per ASSEMBLE_FILE posted
  emitted,          \* history: per sendFile call, chunk messages handed to the transport
  cancelMark,       \* history: per sendFile call, emitted when its record was cancelled
  handed,           \* history: per sendFile call, the messages it passed to sendData, in order
  cancelledMid,     \* history: <<page, fileId>> of the cancel messages processed mid-transfer
  orphanTimers,     \* history: per page, bag of ids whose pending 3 s timer was set by a
                    \* cancel message that matched no record
  rt                \* the computation on one byte sequence (RTSpec, RecvSpec)

pageVars == <<activeTransfers, transferHistory, localStorage, removeTimers,
              completeTimers, workerQ, crashed>>
linkVars == <<connOpen, net>>
sendVars == <<job, emitted, cancelMark, handed>>
budgetVars == <<now, events>>
histVars == <<assembleCalls, cancelledMid, orphanTimers>>
vars == <<pageVars, linkVars, sendVars, budgetVars, histVars, rt>>

\* localStorage.getItem("transferHistory") === null
Absent == [present |-> FALSE, list |-> << >>]
\* the item holds JSON.stringify(list)
Stored(list) == [present |-> TRUE, list |-> list]
Sends == 1..MaxSends

\* the sendFile calls made so far are 1 .. SendsDone
SendsDone == Cardinality({s \in Sends : job[s].phase # "idle"})

RECURSIVE SizeSum(_)
\* the bytes offered to the sendFile calls 1 .. n
SizeSum(n) == IF n = 0 THEN 0 ELSE job[n].size + SizeSum(n - 1)

\* ------------------------------------------------------- records, messages
\* FileMetadata
Metadata(id, name, size, totalChunks) ==
  [id |-> id, name |-> name, size |-> size, totalChunks |-> totalChunks]

\* the ActiveTransfer created by handleData for a metadata message
NewReceiving(meta, t) ==
  [id |-> meta.id, metadata |-> meta, progress |-> Pct0, status |-> "transferring",
   direction |-> "receiving", chunks |-> EmptyMap, receivedSize |-> 0,
   startTime |-> t, pausedAt |-> NoTime, error |-> ""]

\* the ActiveTransfer created by sendFile before chunking starts
NewSending(name, size, t) ==
  [id |-> NoId, metadata |-> Metadata(NoId, name, size, 0), progress |-> Pct0,
   status |-> "preparing", direction |-> "sending", chunks |-> EmptyMap,
   receivedSize |-> 0, startTime |-> t, pausedAt |-> NoTime, error |-> ""]

\* the three message shapes handleData tells apart by their keys
MetadataMsg(meta) == [kind |-> "metadata", metadata |-> meta]
ChunkMsg(fileId, index, data) ==
  [kind |-> "chunk", fileId |-> fileId, index |-> index, data |-> data]
ControlMsg(fileId, action) == [kind |-> "control", fileId |-> fileId, action |-> action]

\* a TransferRecord of the history; bytes is what its blobUrl refers to
HistoryRecord(id, name, size, t, direction, bytes) ==
  [id |-> id, fileName |-> name, fileSize |-> size, timestamp |-> t,
   direction |-> direction, bytes |-> bytes]

\* JSON.stringify drops a key whose value is undefined
JsonRecord(r) ==
  IF "id" \in DOMAIN r /\ r.id = Undef
  THEN [fileName |-> r.fileName, fileSize |-> r.fileSize, timestamp |-> r.timestamp,
        direction |-> r.direction, bytes |-> r.bytes]
  ELSE r

\* JSON.stringify(newHistory)
Json(list) == [i \in DOMAIN list |-> JsonRecord(list[i])]

\* prev.map(f)
MapList(list, f(_)) == [i \in DOMAIN list |-> f(list[i])]

\* prev.filter((t) => t.id !== id)
FilterOutId(list, id) == SelectSeq(list, LAMBDA t : t.id # id)

\* sendData of PeerContext: connection.send when connection?.open, else a toast
sendData(bag, msg) == IF connOpen THEN bag (+) SetToBag({msg}) ELSE bag


\* ----------------------------------------------------- handleData (page.tsx)
\* metadata branch: setActiveTransfers((prev) => [...prev, newTransfer])
handleMetadata(list, meta, t) == Append(list, NewReceiving(meta, t))

\* a test that leaves out the status of the record
TakesChunkAnyStatus(transfer, chunk) == transfer.id = chunk.fileId

\* a test that leaves out the comparison of the ids
TakesChunkAnyId(transfer, chunk) == transfer.status = "transferring"

\* chunk branch: does the record take the chunk
TakesChunk(transfer, chunk) ==
  transfer.id = chunk.fileId /\ transfer.status = "transferring"

\* a chunk branch that takes totalChunks from the chunks it holds
WithChunkRecount(transfer, chunk) ==
  LET chunks == MapSet(transfer.chunks, chunk.index, chunk.data)
  IN [transfer EXCEPT
        !.chunks = chunks,
        !.receivedSize = transfer.receivedSize + Len(chunk.data),
        !.metadata.totalChunks = MapSize(chunks),
        !.progress = Pct100,
        !.status = "completed"]

\* chunk branch: the record after chunks.set, receivedSize, progress and status
WithChunk(transfer, chunk) ==
  LET chunks == MapSet(transfer.chunks, chunk.index, chunk.data)
      isComplete == MapSize(chunks) = transfer.metadata.totalChunks
  IN [transfer EXCEPT
        !.chunks = chunks,
        !.receivedSize = transfer.receivedSize + Len(chunk.data),
        !.progress = Pct(MapSize(chunks), transfer.metadata.totalChunks),
        !.status = IF isComplete THEN "completed" ELSE "transferring"]

\* chunk branch: prev.map over the whole list
handleChunk(list, chunk) ==
  MapList(list, LAMBDA t : IF TakesChunk(t, chunk) THEN WithChunk(t, chunk) ELSE t)

\* chunk branch: the argument of the handleCompleteFileReceived call that the
\* 100 ms timer makes for a record completed by this chunk
Snapshot(transfer, chunk) ==
  [WithChunk(transfer, chunk) EXCEPT !.status = transfer.status, !.progress = Pct100]

\* chunk branch: the timers set while mapping the list, in list order
ChunkTimers(list, chunk) ==
  LET done == SelectSeq(list, LAMBDA t : TakesChunk(t, chunk)
                                /\ WithChunk(t, chunk).status = "completed")
  IN MapList(done, LAMBDA t : Snapshot(t, chunk))

\* control branch: pause, resume and cancel set the status of every record with the id
handleControl(list, control) ==
  LET status == CASE control.action = "pause" -> "paused"
                  [] control.action = "resume" -> "transferring"
                  [] control.action = "cancel" -> "cancelled"
  IN MapList(list, LAMBDA t : IF t.id = control.fileId
                              THEN [t EXCEPT !.status = status] ELSE t)

\* handleData: the activeTransfers list after the message
handleData(list, msg, t) ==
  CASE msg.kind = "metadata" -> handleMetadata(list, msg.metadata, t)
    [] msg.kind = "chunk" -> handleChunk(list, msg)
    [] msg.kind = "control" -> handleControl(list, msg)

\* the sending record of a sendFile call becomes cancelled in this step
CancelledNow(s) ==
  /\ \E i \in DOMAIN activeTransfers'["A"] :
        LET t == activeTransfers'["A"][i]
        IN t.id = s /\ t.direction = "sending" /\ t.status = "cancelled"
  /\ ~ \E i \in DOMAIN activeTransfers["A"] :
        LET t == activeTransfers["A"][i]
        IN t.id = s /\ t.direction = "sending" /\ t.status = "cancelled"

\* cancelMark keeps the number of chunks emitted when a send was first cancelled
MarkCancel ==
  cancelMark' = [s \in Sends |->
                   IF cancelMark[s] < 0 /\ CancelledNow(s) THEN emitted[s]
                   ELSE cancelMark[s]]

\* page p holds exactly one record of the id, and it is a receiving record that
\* is transferring with fewer chunks than totalChunks
MidTransfer(p, id) ==
  /\ Cardinality({i \in DOMAIN activeTransfers[p] : activeTransfers[p][i].id = id}) = 1
  /\ \E i \in DOMAIN activeTransfers[p] :
        LET t == activeTransfers[p][i]
        IN /\ t.id = id /\ t.direction = "receiving" /\ t.status = "transferring"
           /\ MapSize(t.chunks) < t.metadata.totalChunks

\* the transport delivers msg to page p and keeps a copy of it or not;
\* a page whose connection is null has no data listener
Deliver(p, msg, keep) ==
  /\ connOpen /\ ~crashed[p]
  /\ BagIn(msg, net[p])
  /\ keep => events < MaxEvents
  /\ events' = IF keep THEN events + 1 ELSE events
  /\ net' = IF keep THEN net ELSE [net EXCEPT ![p] = @ (-) SetToBag({msg})]
  /\ activeTransfers' = [activeTransfers EXCEPT ![p] = handleData(@, msg, now)]
  /\ completeTimers' =
       IF msg.kind = "chunk"
       THEN [completeTimers EXCEPT ![p] = @ \o ChunkTimers(activeTransfers[p], msg)]
       ELSE completeTimers
  /\ removeTimers' =
       IF msg.kind = "control" /\ msg.action = "cancel"
       THEN [removeTimers EXCEPT ![p] = @ (+) SetToBag({msg.fileId})]
       ELSE removeTimers
  /\ cancelledMid' =
       IF msg.kind = "control" /\ msg.action = "cancel" /\ MidTransfer(p, msg.fileId)
       THEN cancelledMid \cup {<<p, msg.fileId>>}
       ELSE cancelledMid
  /\ orphanTimers' =
       IF /\ msg.kind = "control" /\ msg.action = "cancel"
          /\ ~ \E i \in DOMAIN activeTransfers[p] : activeTransfers[p][i].id = msg.fileId
       THEN [orphanTimers EXCEPT ![p] = @ (+) SetToBag({msg.fileId})]
       ELSE orphanTimers
  /\ MarkCancel
  /\ UNCHANGED <<transferHistory, localStorage, workerQ, crashed, connOpen, job,
                 emitted, handed, now, assembleCalls, rt>>


\* ------------------------------------------- completion and assembly (page)
\* saveTransferRecord: append to the history and store the new list
saveTransferRecord(p, record) ==
  /\ transferHistory' = [transferHistory EXCEPT ![p] = Append(@, record)]
  /\ localStorage' = [localStorage EXCEPT
                        ![p] = Stored(Json(Append(transferHistory[p], record)))]

\* the guard of handleCompleteFileReceived
AllChunksReceived(transfer) == MapSize(transfer.chunks) = transfer.metadata.totalChunks

\* processReceivedFile: the ASSEMBLE_FILE request posted to the worker
AssembleRequest(transfer) ==
  [fileId |-> transfer.id, chunks |-> SortedChunks(transfer.chunks),
   metadata |-> transfer.metadata]

\* handleCompleteFileReceived: the status update of the records with the id
MarkCompleted(list, id) ==
  MapList(list, LAMBDA t : IF t.id = id
                           THEN [t EXCEPT !.status = "completed", !.progress = Pct100]
                           ELSE t)

\* the oldest 100 ms timer of page p fires: handleCompleteFileReceived(snapshot)
handleCompleteFileReceived(p) ==
  /\ ~crashed[p]
  /\ completeTimers[p] # << >>
  /\ LET transfer == Head(completeTimers[p])
     IN /\ completeTimers' = [completeTimers EXCEPT ![p] = Tail(@)]
        /\ IF AllChunksReceived(transfer)
           THEN /\ workerQ' = [workerQ EXCEPT ![p] = Append(@, AssembleRequest(transfer))]
                /\ assembleCalls' = assembleCalls (+) SetToBag({<<p, transfer.id>>})
                /\ activeTransfers' =
                     [activeTransfers EXCEPT ![p] = MarkCompleted(@, transfer.id)]
           ELSE UNCHANGED <<workerQ, assembleCalls, activeTransfers>>
  /\ MarkCancel
  /\ UNCHANGED <<transferHistory, localStorage, removeTimers, crashed, linkVars, job,
                 emitted, handed, budgetVars, cancelledMid, orphanTimers, rt>>

\* the worker answers its oldest request: FILE_ASSEMBLED runs handleFileAssembled
\* (history record, then the record leaves the active list), ERROR only shows a
\* toast.  assembleFile posts ERROR when fileData.set throws (the chunks do not
\* fit in metadata.size bytes) and when the buffer or the Blob cannot be
\* allocated (fails)
WorkerReply(p, fails) ==
  /\ ~crashed[p]
  /\ workerQ[p] # << >>
  /\ fails => events < MaxEvents
  /\ events' = IF fails THEN events + 1 ELSE events
  /\ LET req == Head(workerQ[p])
         res == assembleFile(req.chunks, req.metadata.size)
     IN /\ workerQ' = [workerQ EXCEPT ![p] = Tail(@)]
        /\ IF res.ok /\ ~fails
           THEN /\ saveTransferRecord(p, HistoryRecord(req.fileId, req.metadata.name,
                                         req.metadata.size, now, "received", res.data))
                /\ activeTransfers' =
                     [activeTransfers EXCEPT ![p] = FilterOutId(@, req.fileId)]
           ELSE UNCHANGED <<transferHistory, localStorage, activeTransfers>>
  /\ MarkCancel
  /\ UNCHANGED <<removeTimers, completeTimers, crashed, linkVars, job, emitted, handed,
                 now, histVars, rt>>

\* every pending removal timer of the id on page p was set by a cancel message
\* that matched no record
OrphanFires(p, id) == CopiesIn(id, orphanTimers[p]) = CopiesIn(id, removeTimers[p])

\* a 3 s (cancel) or 1 s (sent) timer fires: the records with the id leave the list
RemoveTimerFires(p, id) ==
  /\ ~crashed[p]
  /\ BagIn(id, removeTimers[p])
  /\ removeTimers' = [removeTimers EXCEPT ![p] = @ (-) SetToBag({id})]
  /\ activeTransfers' = [activeTransfers EXCEPT ![p] = FilterOutId(@, id)]
  /\ orphanTimers' =
       IF OrphanFires(p, id) THEN [orphanTimers EXCEPT ![p] = @ (-) SetToBag({id})]
       ELSE orphanTimers
  /\ MarkCancel
  /\ UNCHANGED <<transferHistory, localStorage, completeTimers, workerQ, crashed,
                 linkVars, job, emitted, handed, budgetVars, assembleCalls, cancelledMid, rt>>


\* ------------------------------------------------------- sendFile (page.tsx)
\* the closure of one chunkFile call
IdleJob == [phase |-> "idle", currentChunk |-> 0, name |-> "", size |-> 0,
            startTime |-> 0, totalChunks |-> 0]

\* the record(s) an updater of sendFile selects: by file name and start time
IsJobRecord(t, j) == t.metadata.name = j.name /\ t.startTime = j.startTime

\* a last updater that sets id and metadata and leaves the status
AssignIdKeepsStatus(list, j, meta) ==
  MapList(list, LAMBDA t : IF IsJobRecord(t, j)
                           THEN [t EXCEPT !.id = meta.id, !.metadata = meta]
                           ELSE t)

\* sendFile's last updater: id, metadata and status transferring
AssignId(list, j, meta) ==
  MapList(list, LAMBDA t : IF IsJobRecord(t, j)
                           THEN [t EXCEPT !.id = meta.id, !.metadata = meta,
                                          !.status = "transferring"]
                           ELSE t)

\* onProgress
SetProgress(list, j, progress) ==
  MapList(list, LAMBDA t : IF IsJobRecord(t, j)
                           THEN [t EXCEPT !.progress = progress] ELSE t)

\* an onError that sets the status and drops the message
SetErrorStatusOnly(list, j, message) ==
  MapList(list, LAMBDA t : IF IsJobRecord(t, j) THEN [t EXCEPT !.status = "error"] ELSE t)

\* onError
SetError(list, j, message) ==
  MapList(list, LAMBDA t : IF IsJobRecord(t, j)
                           THEN [t EXCEPT !.status = "error", !.error = message]
                           ELSE t)

\* what the history keeps of a message passed to sendData
Handed(msg) ==
  [kind |-> msg.kind, fileId |-> IF msg.kind = "metadata" THEN msg.metadata.id ELSE msg.fileId]

\* a sendFile that starts the chunking and sends no metadata message
NoMetadataSends(meta) == << >>

\* the messages sendFile passes to sendData before it returns: sendData({ metadata })
MetadataSends(meta) == <<MetadataMsg(meta)>>

\* sendData for each message of a sequence
sendAll(bag, msgs) ==
  IF connOpen THEN bag (+) [m \in {msgs[i] : i \in DOMAIN msgs} |-> 1] ELSE bag

\* sendFile(file) for a file with at least one chunk: the record is added,
\* chunkFile starts the first slice read and returns, the metadata is sent and
\* the record gets its id
SendFileChunks(name, size) ==
  /\ size > 0
  /\ connOpen /\ ~crashed["A"]
  /\ SendsDone < MaxSends
  /\ SendsDone > 0 => events < MaxEvents
  /\ SizeSum(SendsDone) + size <= MaxSize
  /\ LET s == SendsDone + 1
         j == [phase |-> "reading", currentChunk |-> 0, name |-> name, size |-> size,
               startTime |-> now, totalChunks |-> TotalChunks(size, ChunkSize)]
         meta == Metadata(s, name, size, j.totalChunks)
     IN /\ job' = [job EXCEPT ![s] = j]
        /\ net' = [net EXCEPT !["B"] = sendAll(@, MetadataSends(meta))]
        /\ handed' = [handed EXCEPT
                        ![s] = @ \o [i \in DOMAIN MetadataSends(meta) |->
                                       Handed(MetadataSends(meta)[i])]]
        /\ activeTransfers' =
             [activeTransfers EXCEPT
                !["A"] = AssignId(Append(@, NewSending(name, size, now)), j, meta)]
  /\ events' = IF SendsDone > 0 THEN events + 1 ELSE events
  /\ MarkCancel
  /\ UNCHANGED <<transferHistory, localStorage, removeTimers, completeTimers,
                 workerQ, crashed, connOpen, emitted, now, histVars, rt>>

\* sendFile(file) for an empty file: totalChunks is 0, so processNextChunk calls
\* onComplete before chunkFile has returned, while sendFile's binding fileId is
\* not initialised yet.  A build that keeps const throws a ReferenceError in
\* onComplete: sendFile stops before the metadata is sent, and the queued
\* completed-updater throws again when React renders, which unmounts the page.
\* A build that compiles const to var reads undefined: the history record gets
\* that id, the 1 s timer and the updaters (run later) see the real id.
SendFileEmpty(name, keepsConst) ==
  /\ connOpen /\ ~crashed["A"]
  /\ SendsDone < MaxSends
  /\ SendsDone > 0 => events < MaxEvents
  /\ LET s == SendsDone + 1
         j == [phase |-> IF keepsConst THEN "aborted" ELSE "done", currentChunk |-> 0,
               name |-> name, size |-> 0, startTime |-> now,
               totalChunks |-> TotalChunks(0, ChunkSize)]
         meta == Metadata(s, name, 0, j.totalChunks)
         added == Append(activeTransfers["A"], NewSending(name, 0, now))
     IN /\ job' = [job EXCEPT ![s] = j]
        /\ IF keepsConst
           THEN /\ crashed' = [crashed EXCEPT !["A"] = TRUE]
                /\ activeTransfers' = [activeTransfers EXCEPT !["A"] = added]
                /\ UNCHANGED <<net, handed, transferHistory, localStorage, removeTimers>>
           ELSE /\ saveTransferRecord("A", HistoryRecord(Undef, name, 0, now, "sent",
                                                         Content(name, 0)))
                /\ removeTimers' = [removeTimers EXCEPT !["A"] = @ (+) SetToBag({s})]
                /\ net' = [net EXCEPT !["B"] = sendAll(@, MetadataSends(meta))]
                /\ handed' = [handed EXCEPT
                                ![s] = @ \o [i \in DOMAIN MetadataSends(meta) |->
                                               Handed(MetadataSends(meta)[i])]]
                /\ activeTransfers' =
                     [activeTransfers EXCEPT
                        !["A"] = AssignId(MarkCompleted(added, s), j, meta)]
                /\ UNCHANGED crashed
  /\ events' = IF SendsDone > 0 THEN events + 1 ELSE events
  /\ MarkCancel
  /\ UNCHANGED <<completeTimers, workerQ, connOpen, emitted, now, histVars, rt>>

\* reader.onload of the slice read in flight: onChunkReady hands the chunk to the
\* transport when the connection is open, currentChunk++, onProgress, and the
\* 10 ms timer for processNextChunk is set
ReadLoaded(s) ==
  /\ job[s].phase = "reading"
  /\ LET j == job[s]
         chunk == ChunkMsg(s, j.currentChunk,
                           ChunkData(Content(j.name, j.size), j.currentChunk, ChunkSize))
     IN /\ net' = [net EXCEPT !["B"] = sendData(@, chunk)]
        /\ emitted' = [emitted EXCEPT ![s] = IF connOpen THEN @ + 1 ELSE @]
        /\ handed' = [handed EXCEPT
                        ![s] = IF connOpen THEN Append(@, Handed(chunk)) ELSE @]
        /\ job' = [job EXCEPT ![s].currentChunk = @ + 1, ![s].phase = "timer"]
        /\ activeTransfers' =
             IF crashed["A"] THEN activeTransfers
             ELSE [activeTransfers EXCEPT
                     !["A"] = SetProgress(@, j, Pct(j.currentChunk + 1, j.totalChunks))]
  /\ MarkCancel
  /\ UNCHANGED <<transferHistory, localStorage, removeTimers, completeTimers,
                 workerQ, crashed, connOpen, budgetVars, histVars, rt>>

\* reader.onerror of the slice read in flight: onError, and the chunking stops
ReadError(s) ==
  /\ job[s].phase = "reading"
  /\ events < MaxEvents
  /\ events' = events + 1
  /\ job' = [job EXCEPT ![s].phase = "failed"]
  /\ activeTransfers' =
       IF crashed["A"] THEN activeTransfers
       ELSE [activeTransfers EXCEPT
               !["A"] = SetError(@, job[s], "Failed to read file chunk")]
  /\ MarkCancel
  /\ UNCHANGED <<transferHistory, localStorage, removeTimers, completeTimers,
                 workerQ, crashed, linkVars, emitted, handed, now, histVars, rt>>

\* the 10 ms timer fires, processNextChunk: the next slice read is started
processNextChunkRead(s) ==
  /\ job[s].phase = "timer"
  /\ job[s].currentChunk < job[s].totalChunks
  /\ job' = [job EXCEPT ![s].phase = "reading"]
  /\ UNCHANGED <<pageVars, linkVars, emitted, handed, cancelMark, budgetVars, histVars, rt>>

\* the 10 ms timer fires, processNextChunk after the last chunk: onComplete marks
\* the records with the id completed, adds the sent record to the history and
\* sets the 1 s removal timer
processNextChunkComplete(s) ==
  /\ job[s].phase = "timer"
  /\ job[s].currentChunk >= job[s].totalChunks
  /\ job' = [job EXCEPT ![s].phase = "done"]
  /\ removeTimers' = [removeTimers EXCEPT !["A"] = @ (+) SetToBag({s})]
  /\ IF crashed["A"]
     THEN UNCHANGED <<transferHistory, localStorage, activeTransfers>>
     ELSE /\ saveTransferRecord("A", HistoryRecord(s, job[s].name, job[s].size, now,
                                   "sent", Content(job[s].name, job[s].size)))
          /\ activeTransfers' = [activeTransfers EXCEPT !["A"] = MarkCompleted(@, s)]
  /\ MarkCancel
  /\ UNCHANGED <<completeTimers, workerQ, crashed, linkVars, emitted, handed, budgetVars,
                 histVars, rt>>


\* ------------------------------------------- control handlers (page.tsx)
\* the updater of pauseTransfer
SetPaused(list, id, t) ==
  MapList(list, LAMBDA r : IF r.id = id
                           THEN [r EXCEPT !.status = "paused", !.pausedAt = t] ELSE r)

\* the updater of resumeTransfer
SetResumed(list, id) ==
  MapList(list, LAMBDA r : IF r.id = id
                           THEN [r EXCEPT !.status = "transferring", !.pausedAt = NoTime]
                           ELSE r)

\* the updater of cancelTransfer
SetCancelled(list, id) ==
  MapList(list, LAMBDA r : IF r.id = id THEN [r EXCEPT !.status = "cancelled"] ELSE r)

\* the pause button, shown for a transferring record, is clicked:
\* pauseTransfer(transfer) acts on a sending record while connection is set
pauseTransfer(p, i) ==
  /\ ~crashed[p] /\ events < MaxEvents
  /\ i \in DOMAIN activeTransfers[p]
  /\ activeTransfers[p][i].status = "transferring"
  /\ LET id == activeTransfers[p][i].id
     IN IF activeTransfers[p][i].direction = "sending" /\ connOpen
        THEN /\ net' = [net EXCEPT ![Other(p)] = sendData(@, ControlMsg(id, "pause"))]
             /\ activeTransfers' = [activeTransfers EXCEPT ![p] = SetPaused(@, id, now)]
        ELSE UNCHANGED <<net, activeTransfers>>
  /\ events' = events + 1
  /\ MarkCancel
  /\ UNCHANGED <<transferHistory, localStorage, removeTimers, completeTimers,
                 workerQ, crashed, connOpen, job, emitted, handed, now, histVars, rt>>

\* the resume button, shown for a paused record, is clicked:
\* resumeTransfer(transfer) acts on a sending record while connection is set
resumeTransfer(p, i) ==
  /\ ~crashed[p] /\ events < MaxEvents
  /\ i \in DOMAIN activeTransfers[p]
  /\ activeTransfers[p][i].status = "paused"
  /\ LET id == activeTransfers[p][i].id
     IN IF activeTransfers[p][i].direction = "sending" /\ connOpen
        THEN /\ net' = [net EXCEPT ![Other(p)] = sendData(@, ControlMsg(id, "resume"))]
             /\ activeTransfers' = [activeTransfers EXCEPT ![p] = SetResumed(@, id)]
        ELSE UNCHANGED <<net, activeTransfers>>
  /\ events' = events + 1
  /\ MarkCancel
  /\ UNCHANGED <<transferHistory, localStorage, removeTimers, completeTimers,
                 workerQ, crashed, connOpen, job, emitted, handed, now, histVars, rt>>

\* the cancel button, shown for a transferring or paused record, is clicked:
\* cancelTransfer(transfer) acts while connection is set
cancelTransfer(p, i) ==
  /\ ~crashed[p] /\ events < MaxEvents
  /\ i \in DOMAIN activeTransfers[p]
  /\ activeTransfers[p][i].status \in {"transferring", "paused"}
  /\ LET id == activeTransfers[p][i].id
     IN IF connOpen
        THEN /\ net' = [net EXCEPT ![Other(p)] = sendData(@, ControlMsg(id, "cancel"))]
             /\ activeTransfers' = [activeTransfers EXCEPT ![p] = SetCancelled(@, id)]
             /\ removeTimers' = [removeTimers EXCEPT ![p] = @ (+) SetToBag({id})]
        ELSE UNCHANGED <<net, activeTransfers, removeTimers>>
  /\ events' = events + 1
  /\ MarkCancel
  /\ UNCHANGED <<transferHistory, localStorage, completeTimers, workerQ, crashed,
                 connOpen, job, emitted, handed, now, histVars, rt>>

\* ------------------------------------------------------------ environment
\* conn.on("close") of PeerContext: connection becomes null on both pages and
\* what was in flight is lost; connOpen stands for both connection.open and the
\* connection state being set
Close ==
  /\ connOpen
  /\ events < MaxEvents
  /\ events' = events + 1
  /\ connOpen' = FALSE
  /\ net' = [p \in Peers |-> EmptyBag]
  /\ UNCHANGED <<pageVars, sendVars, now, histVars, rt>>

\* a millisecond passes.  Time is let pass while a sendFile call is still to
\* come: start times select the records of a send, later readings of the clock
\* are only stored
Tick ==
  /\ now < MaxTime
  /\ SendsDone < MaxSends
  /\ now' = now + 1
  /\ UNCHANGED <<pageVars, linkVars, sendVars, events, histVars, rt>>

\* ------------------------------------------- round trip of one byte sequence
\* largest chunk size of the round trip
RTMaxChunk == 2
\* number of byte patterns of the round trip, less one
RTMaxSeed == 2

\* the lengths N of P1 for chunk size c
RTSizes(c) == {0, 1, c - 1, c, c + 1, 10 * c + 7}

\* a byte sequence of length n
RTBytes(n, seed) == [i \in 1..n |-> (seed * 101 + 3 * i) % 256]

\* rt outside RTSpec
RTIdle == [stage |-> "idle", chunkSize |-> 1, bytes |-> << >>, totalChunks |-> 0,
           currentChunk |-> 0, chunks |-> EmptyMap, ok |-> FALSE, data |-> << >>]

\* chunkFile is called on the byte sequence with the chunk size
RTStart(c, n, seed) ==
  [RTIdle EXCEPT !.stage = "chunking", !.chunkSize = c, !.bytes = RTBytes(n, seed),
                 !.totalChunks = TotalChunks(n, c)]

\* processNextChunk emits chunk currentChunk and the receiving side does
\* chunks.set(chunk.index, chunk.data)
RTChunk ==
  /\ rt.stage = "chunking"
  /\ rt.currentChunk < rt.totalChunks
  /\ rt' = [rt EXCEPT
              !.chunks = MapSet(@, rt.currentChunk,
                                ChunkData(rt.bytes, rt.currentChunk, rt.chunkSize)),
              !.currentChunk = @ + 1]
  /\ UNCHANGED <<pageVars, linkVars, sendVars, budgetVars, histVars>>

\* the mapping is complete: processReceivedFile sorts it and assembleFile fills
\* a buffer of metadata.size bytes
RTAssemble ==
  /\ rt.stage = "chunking"
  /\ rt.currentChunk >= rt.totalChunks
  /\ MapSize(rt.chunks) = rt.totalChunks
  /\ LET res == assembleFile(SortedChunks(rt.chunks), Len(rt.bytes))
     IN rt' = [rt EXCEPT !.stage = "assembled", !.ok = res.ok, !.data = res.data]
  /\ UNCHANGED <<pageVars, linkVars, sendVars, budgetVars, histVars>>

\* ------------------------------------ one receiving record, chunks in any order
\* largest number of chunks of the file received
RecvMaxChunks == 4
\* number of chunk messages delivered a second time
RecvMaxDup == 2

\* the data of a chunk message changed on the way
Altered(data) == [i \in DOMAIN data |-> (data[i] + 1) % 256]

\* the metadata message of the file was handled: the active list holds the new
\* receiving record, every chunk message of the file is still to come
RecvStart(c, n, seed) ==
  [stage |-> "receiving", chunkSize |-> c, bytes |-> RTBytes(n, seed),
   totalChunks |-> TotalChunks(n, c),
   list |-> handleMetadata(<< >>, Metadata(1, "a.txt", n, TotalChunks(n, c)), 0),
   timers |-> << >>, order |-> << >>, dups |-> 0, reinserted |-> 0, altered |-> FALSE,
   before |-> << >>, ok |-> FALSE, data |-> << >>]

\* handleData for the chunk message of index k, delivered for the first time or
\* once more (then with the same data or with altered data)
RecvChunk(k, same) ==
  /\ rt.stage = "receiving"
  /\ k \in 0..(rt.totalChunks - 1)
  /\ (\E i \in DOMAIN rt.order : rt.order[i] = k) => rt.dups < RecvMaxDup
  /\ ~ (\E i \in DOMAIN rt.order : rt.order[i] = k) => same
  /\ LET d == ChunkData(rt.bytes, k, rt.chunkSize)
         msg == ChunkMsg(1, k, IF same THEN d ELSE Altered(d))
         again == \E i \in DOMAIN rt.order : rt.order[i] = k
     IN rt' = [rt EXCEPT
                 !.list = handleData(@, msg, 0),
                 !.timers = @ \o ChunkTimers(rt.list, msg),
                 !.order = Append(@, k),
                 !.dups = IF again THEN @ + 1 ELSE @,
                 !.reinserted = IF again /\ TakesChunk(rt.list[1], msg) THEN @ + 1 ELSE @,
                 !.altered = @ \/ (again /\ TakesChunk(rt.list[1], msg) /\ ~same
                                     /\ d # << >>),
                 !.before = rt.list]
  /\ UNCHANGED <<pageVars, linkVars, sendVars, budgetVars, histVars>>

\* the 100 ms timer fires: handleCompleteFileReceived posts the sorted chunks and
\* the worker's assembleFile fills the buffer
RecvComplete ==
  /\ rt.stage = "receiving"
  /\ rt.timers # << >>
  /\ LET transfer == Head(rt.timers)
         req == AssembleRequest(transfer)
         res == assembleFile(req.chunks, req.metadata.size)
     IN IF AllChunksReceived(transfer)
        THEN rt' = [rt EXCEPT !.stage = "assembled", !.timers = Tail(@),
                              !.list = MarkCompleted(@, transfer.id),
                              !.before = rt.list,
                              !.ok = res.ok, !.data = res.data]
        ELSE rt' = [rt EXCEPT !.timers = Tail(@), !.before = rt.list]
  /\ UNCHANGED <<pageVars, linkVars, sendVars, budgetVars, histVars>>

\* ------------------------------------------- two receiving records, two ids
\* largest size of each of the two files
IsoMaxSize == 3
\* number of control messages delivered
IsoMaxCtl == 2

\* the ids of the two transfers
IsoIds == {1, 2}
Actions == {"pause", "resume", "cancel"}

\* the metadata messages of two files were handled: the active list holds a
\* receiving record for each, every chunk message is still to come
IsoStart(n1, n2) ==
  LET size == <<n1, n2>>
      meta(id) == Metadata(id, "a.txt", size[id], TotalChunks(size[id], ChunkSize))
  IN [stage |-> "two", chunkSize |-> ChunkSize,
      files |-> <<RTBytes(n1, 0), RTBytes(n2, 1)>>,
      list |-> handleData(handleData(<< >>, MetadataMsg(meta(1)), 0),
                          MetadataMsg(meta(2)), 0),
      timers |-> << >>, removals |-> EmptyBag, order |-> << >>, controls |-> 0,
      out |-> [id \in IsoIds |-> [done |-> FALSE, ok |-> FALSE, data |-> << >>]]]

\* handleData for chunk k of the file of the id, delivered once
IsoChunk(id, k) ==
  /\ rt.stage = "two"
  /\ k \in 0..(TotalChunks(Len(rt.files[id]), rt.chunkSize) - 1)
  /\ ~ \E i \in DOMAIN rt.order : rt.order[i] = <<id, k>>
  /\ LET msg == ChunkMsg(id, k, ChunkData(rt.files[id], k, rt.chunkSize))
     IN rt' = [rt EXCEPT !.list = handleData(@, msg, 0),
                         !.timers = @ \o ChunkTimers(rt.list, msg),
                         !.order = Append(@, <<id, k>>)]
  /\ UNCHANGED <<pageVars, linkVars, sendVars, budgetVars, histVars>>

\* handleData for a control message of the id; cancel sets the 3 s timer
IsoControl(id, action) ==
  /\ rt.stage = "two"
  /\ rt.controls < IsoMaxCtl
  /\ rt' = [rt EXCEPT !.list = handleData(@, ControlMsg(id, action), 0),
                      !.removals = IF action = "cancel" THEN @ (+) SetToBag({id}) ELSE @,
                      !.controls = @ + 1]
  /\ UNCHANGED <<pageVars, linkVars, sendVars, budgetVars, histVars>>

\* the oldest 100 ms timer fires: handleCompleteFileReceived, and the worker
\* assembles the chunks posted
IsoComplete ==
  /\ rt.stage = "two"
  /\ rt.timers # << >>
  /\ LET transfer == Head(rt.timers)
         req == AssembleRequest(transfer)
         res == assembleFile(req.chunks, req.metadata.size)
     IN IF AllChunksReceived(transfer)
        THEN rt' = [rt EXCEPT !.timers = Tail(@),
                              !.list = MarkCompleted(@, transfer.id),
                              !.out[transfer.id] =
                                 [done |-> TRUE, ok |-> res.ok, data |-> res.data]]
        ELSE rt' = [rt EXCEPT !.timers = Tail(@)]
  /\ UNCHANGED <<pageVars, linkVars, sendVars, budgetVars, histVars>>

\* a 3 s timer set by a cancel message fires
IsoRemove(id) ==
  /\ rt.stage = "two"
  /\ BagIn(id, rt.removals)
  /\ rt' = [rt EXCEPT !.removals = @ (-) SetToBag({id}),
                      !.list = FilterOutId(@, id)]
  /\ UNCHANGED <<pageVars, linkVars, sendVars, budgetVars, histVars>>

\* ------------------------------------------------ the Chunker on one file
\* chunkSize of chunkFile: 16 * 1024
ChunkSize16K == 16384
\* largest chunk size of the scaled-down files
CkMaxChunk == 3
\* largest number of chunks of the scaled-down files
CkMaxChunks == 4

\* chunkFile(options) up to its return: fileId, totalChunks, metadata, and the
\* first call of processNextChunk, which calls onComplete when there is no chunk
\* and starts the first slice read otherwise.  calls, progress, completes and
\* errors record the calls of onChunkReady, onProgress, onComplete and onError
CkStart(c, n, seed) ==
  [stage |-> "chunker", chunkSize |-> c, bytes |-> RTBytes(n, seed),
   metadata |-> Metadata(1, "a.txt", n, TotalChunks(n, c)),
   fileId |-> 1, totalChunks |-> TotalChunks(n, c), currentChunk |-> 0,
   phase |-> IF 0 >= TotalChunks(n, c) THEN "done" ELSE "reading",
   calls |-> << >>, progress |-> << >>,
   completes |-> IF 0 >= TotalChunks(n, c) THEN 1 ELSE 0,
   errors |-> 0, callsAtEnd |-> 0]

\* reader.onload that calls onChunkReady with the index after the increment
CkLoadedIncrementFirst ==
  /\ rt.stage = "chunker"
  /\ rt.phase = "reading"
  /\ rt' = [rt EXCEPT
              !.calls = Append(@, ChunkMsg(rt.fileId, rt.currentChunk + 1,
                                  ChunkData(rt.bytes, rt.currentChunk, rt.chunkSize))),
              !.currentChunk = @ + 1,
              !.progress = Append(@, Pct(rt.currentChunk + 1, rt.totalChunks)),
              !.phase = "timer"]
  /\ UNCHANGED <<pageVars, linkVars, sendVars, budgetVars, histVars>>

\* reader.onload that computes the progress before the increment
CkLoadedProgressFirst ==
  /\ rt.stage = "chunker"
  /\ rt.phase = "reading"
  /\ rt' = [rt EXCEPT
              !.calls = Append(@, ChunkMsg(rt.fileId, rt.currentChunk,
                                  ChunkData(rt.bytes, rt.currentChunk, rt.chunkSize))),
              !.currentChunk = @ + 1,
              !.progress = Append(@, Pct(rt.currentChunk, rt.totalChunks)),
              !.phase = "timer"]
  /\ UNCHANGED <<pageVars, linkVars, sendVars, budgetVars, histVars>>

\* reader.onload: onChunkReady({fileId, index: currentChunk, data}),
\* currentChunk++, onProgress, setTimeout(processNextChunk, 10)
CkLoaded ==
  /\ rt.stage = "chunker"
  /\ rt.phase = "reading"
  /\ rt' = [rt EXCEPT
              !.calls = Append(@, ChunkMsg(rt.fileId, rt.currentChunk,
                                  ChunkData(rt.bytes, rt.currentChunk, rt.chunkSize))),
              !.currentChunk = @ + 1,
              !.progress = Append(@, Pct(rt.currentChunk + 1, rt.totalChunks)),
              !.phase = "timer"]
  /\ UNCHANGED <<pageVars, linkVars, sendVars, budgetVars, histVars>>

\* reader.onerror that calls onError and goes on with the next chunk
CkReadErrorGoesOn ==
  /\ rt.stage = "chunker"
  /\ rt.phase = "reading"
  /\ rt.errors = 0
  /\ rt' = [rt EXCEPT !.errors = @ + 1, !.currentChunk = @ + 1, !.phase = "timer",
                      !.callsAtEnd = Len(rt.calls)]
  /\ UNCHANGED <<pageVars, linkVars, sendVars, budgetVars, histVars>>

\* reader.onerror: onError("Failed to read file chunk"), nothing is scheduled
CkReadError ==
  /\ rt.stage = "chunker"
  /\ rt.phase = "reading"
  /\ rt' = [rt EXCEPT !.errors = @ + 1, !.phase = "failed",
                      !.callsAtEnd = Len(rt.calls)]
  /\ UNCHANGED <<pageVars, linkVars, sendVars, budgetVars, histVars>>

\* the 10 ms timer fires, processNextChunk: onComplete after the last chunk,
\* the next slice read otherwise
CkTimer ==
  /\ rt.stage = "chunker"
  /\ rt.phase = "timer"
  /\ IF rt.currentChunk >= rt.totalChunks
     THEN rt' = [rt EXCEPT !.completes = @ + 1, !.phase = "done",
                           !.callsAtEnd = Len(rt.calls)]
     ELSE rt' = [rt EXCEPT !.phase = "reading"]
  /\ UNCHANGED <<pageVars, linkVars, sendVars, budgetVars, histVars>>

RECURSIVE WorkerChunks(_, _, _, _)
\* chunkFile of the worker: the loop while (offset < data.length) from offset
\* and index on, giving the chunks {index, data} it pushes
WorkerChunks(data, cs, offset, index) ==
  IF offset < Len(data)
  THEN LET end == Min(offset + cs, Len(data))
       IN <<[index |-> index, data |-> Slice(data, offset, end)]>>
          \o WorkerChunks(data, cs, end, index + 1)
  ELSE << >>

\* ------------------------------------------ several files sent by one page
\* number of sendFile calls
SndMaxFiles == 2
\* largest size of a file sent
SndMaxSize == 4
\* latest value of Date.now()
SndMaxTime == 1

\* the names of the files dropped
SndNames == {"a.txt", "b.txt"}
\* the id of a file the peer is sending
SndRecvId == 100

\* the page before the first sendFile call: the active list is empty or holds
\* the receiving record of a file the peer is sending
SndStart(receiving) ==
  [stage |-> "senders",
   list |-> IF receiving
            THEN handleData(<< >>, MetadataMsg(Metadata(SndRecvId, "a.txt", 1, 1)), 0)
            ELSE << >>,
   jobs |-> << >>, removals |-> EmptyBag, history |-> << >>, now |-> 0]

\* sendFile(file) for a file with at least one chunk: the record is added,
\* chunkFile makes fileId and metadata and starts the first slice read, and the
\* record gets its id.  pos is the place of the record this call added
SndSendFile(name, size) ==
  /\ rt.stage = "senders"
  /\ Len(rt.jobs) < SndMaxFiles
  /\ LET s == Len(rt.jobs) + 1
         j == [name |-> name, size |-> size, startTime |-> rt.now, fileId |-> s,
               totalChunks |-> TotalChunks(size, ChunkSize), currentChunk |-> 0,
               reads |-> 1, timers |-> 0, emitted |-> 0, completes |-> 0,
               errors |-> 0, pos |-> Len(rt.list) + 1]
         meta == Metadata(s, name, size, j.totalChunks)
     IN rt' = [rt EXCEPT
                 !.jobs = Append(@, j),
                 !.list = AssignId(Append(@, NewSending(name, size, rt.now)), j, meta)]
  /\ UNCHANGED <<pageVars, linkVars, sendVars, budgetVars, histVars>>

\* Date.now() moves on
SndTick ==
  /\ rt.stage = "senders"
  /\ rt.now < SndMaxTime
  /\ rt' = [rt EXCEPT !.now = @ + 1]
  /\ UNCHANGED <<pageVars, linkVars, sendVars, budgetVars, histVars>>

\* a reader.onload that sets the timer and also calls processNextChunk itself
SndLoadedReadsOn(s) ==
  /\ rt.stage = "senders"
  /\ s \in DOMAIN rt.jobs
  /\ rt.jobs[s].reads > 0
  /\ LET j == rt.jobs[s]
     IN rt' = [rt EXCEPT
                 !.jobs[s].reads = IF j.currentChunk + 1 < j.totalChunks THEN @ ELSE @ - 1,
                 !.jobs[s].emitted = @ + 1,
                 !.jobs[s].currentChunk = @ + 1,
                 !.jobs[s].timers = @ + 1,
                 !.list = SetProgress(@, j, Pct(j.currentChunk + 1, j.totalChunks))]
  /\ UNCHANGED <<pageVars, linkVars, sendVars, budgetVars, histVars>>

\* reader.onload of a slice read of the file of call s: onChunkReady,
\* currentChunk++, onProgress, setTimeout(processNextChunk, 10)
SndLoaded(s) ==
  /\ rt.stage = "senders"
  /\ s \in DOMAIN rt.jobs
  /\ rt.jobs[s].reads > 0
  /\ LET j == rt.jobs[s]
     IN rt' = [rt EXCEPT
                 !.jobs[s].reads = @ - 1,
                 !.jobs[s].emitted = @ + 1,
                 !.jobs[s].currentChunk = @ + 1,
                 !.jobs[s].timers = @ + 1,
                 !.list = SetProgress(@, j, Pct(j.currentChunk + 1, j.totalChunks))]
  /\ UNCHANGED <<pageVars, linkVars, sendVars, budgetVars, histVars>>

\* reader.onerror of a slice read of the file of call s: onError
SndReadError(s) ==
  /\ rt.stage = "senders"
  /\ s \in DOMAIN rt.jobs
  /\ rt.jobs[s].reads > 0
  /\ rt' = [rt EXCEPT
              !.jobs[s].reads = @ - 1,
              !.jobs[s].errors = @ + 1,
              !.list = SetError(@, rt.jobs[s], "Failed to read file chunk")]
  /\ UNCHANGED <<pageVars, linkVars, sendVars, budgetVars, histVars>>

\* a 10 ms timer of call s fires, processNextChunk: after the last chunk
\* onComplete marks the records with the id completed, adds the sent record
\* to the history and sets the 1 s removal timer; otherwise the next slice
\* read is started
SndTimer(s) ==
  /\ rt.stage = "senders"
  /\ s \in DOMAIN rt.jobs
  /\ rt.jobs[s].timers > 0
  /\ LET j == rt.jobs[s]
     IN IF j.currentChunk >= j.totalChunks
        THEN rt' = [rt EXCEPT
                      !.jobs[s].timers = @ - 1,
                      !.jobs[s].completes = @ + 1,
                      !.list = MarkCompleted(@, j.fileId),
                      !.history = Append(@, HistoryRecord(j.fileId, j.name, j.size, rt.now,
                                                          "sent", Content(j.name, j.size))),
                      !.removals = @ (+) SetToBag({j.fileId})]
        ELSE rt' = [rt EXCEPT !.jobs[s].timers = @ - 1, !.jobs[s].reads = @ + 1]
  /\ UNCHANGED <<pageVars, linkVars, sendVars, budgetVars, histVars>>

\* the 1 s timer set by onComplete fires: the records with the id are removed
SndRemove(id) ==
  /\ rt.stage = "senders"
  /\ BagIn(id, rt.removals)
  /\ LET gone(k) == Cardinality({i \in 1..(k - 1) : rt.list[i].id = id})
         moved(j) == IF j.pos = 0 \/ rt.list[j.pos].id = id THEN 0
                     ELSE j.pos - gone(j.pos)
     IN rt' = [rt EXCEPT
                 !.removals = @ (-) SetToBag({id}),
                 !.list = FilterOutId(@, id),
                 !.jobs = [s \in DOMAIN rt.jobs |-> [rt.jobs[s] EXCEPT !.pos = moved(rt.jobs[s])]]]
  /\ UNCHANGED <<pageVars, linkVars, sendVars, budgetVars, histVars>>

\* ------------------------------- one receiving record, any chunk index
\* largest number of chunks of the file
IdxMaxChunks == 2
\* largest index of a chunk message
IdxMaxIndex == 3
\* number of chunk messages delivered
IdxMaxMsgs == 3

\* the metadata message of the file was handled: the active list holds the new
\* receiving record; posted keeps the key sets of the mappings given to
\* processReceivedFile
IdxStart(n, seed) ==
  [stage |-> "indexed", chunkSize |-> ChunkSize, bytes |-> RTBytes(n, seed),
   totalChunks |-> TotalChunks(n, ChunkSize),
   list |-> handleMetadata(<< >>, Metadata(1, "a.txt", n, TotalChunks(n, ChunkSize)), 0),
   timers |-> << >>, msgs |-> 0, posted |-> << >>]

\* handleData for a chunk message of the file with index k, whatever k is: the
\* slice of the file when the file has a chunk k, one byte otherwise
IdxChunk(k) ==
  /\ rt.stage = "indexed"
  /\ rt.msgs < IdxMaxMsgs
  /\ LET data == IF k < rt.totalChunks THEN ChunkData(rt.bytes, k, rt.chunkSize)
                 ELSE <<0>>
         msg == ChunkMsg(1, k, data)
     IN rt' = [rt EXCEPT !.list = handleData(@, msg, 0),
                         !.timers = @ \o ChunkTimers(rt.list, msg),
                         !.msgs = @ + 1]
  /\ UNCHANGED <<pageVars, linkVars, sendVars, budgetVars, histVars>>

\* the oldest 100 ms timer fires: handleCompleteFileReceived gives the mapping
\* to processReceivedFile and marks the record completed
IdxComplete ==
  /\ rt.stage = "indexed"
  /\ rt.timers # << >>
  /\ LET transfer == Head(rt.timers)
     IN IF AllChunksReceived(transfer)
        THEN rt' = [rt EXCEPT !.timers = Tail(@),
                              !.list = MarkCompleted(@, transfer.id),
                              !.posted = Append(@, MapKeys(transfer.chunks))]
        ELSE rt' = [rt EXCEPT !.timers = Tail(@)]
  /\ UNCHANGED <<pageVars, linkVars, sendVars, budgetVars, histVars>>

\* ------------------------------------------------ the history of one page
\* largest length of the history list
HistMaxLen == 3
\* largest transfer id of a history record
HistMaxId == 2

\* the ids of the records saved: transfer ids, and undefined
HistIds == (1..HistMaxId) \cup {Undef}
\* the records given to saveTransferRecord
HistRecords ==
  {HistoryRecord(id, "a.txt", 1, 0, direction, <<1>>) :
     id \in HistIds, direction \in {"sent", "received"}}

\* the counts of the history operations made, up to 2 each
HistOps(appends, removes, clears) ==
  [stage |-> "history", appends |-> Min(appends, 2), removes |-> Min(removes, 2),
   clears |-> Min(clears, 2)]

\* prev.filter((item) => item.id !== id)
FilterHistory(list, id) ==
  SelectSeq(list, LAMBDA item : ~("id" \in DOMAIN item /\ item.id = id))

\* saveTransferRecord(record) called on page p
HistAppend(p, record) ==
  /\ rt.stage = "history"
  /\ Len(transferHistory[p]) < HistMaxLen
  /\ saveTransferRecord(p, record)
  /\ rt' = HistOps(rt.appends + 1, rt.removes, rt.clears)
  /\ UNCHANGED <<activeTransfers, removeTimers, completeTimers, workerQ, crashed,
                 linkVars, sendVars, budgetVars, histVars>>

\* a removeHistoryItem that leaves the stored item as it is
removeHistoryItemInMemory(p, id) ==
  /\ rt.stage = "history"
  /\ transferHistory' = [transferHistory EXCEPT ![p] = FilterHistory(@, id)]
  /\ rt' = HistOps(rt.appends, rt.removes + 1, rt.clears)
  /\ UNCHANGED <<activeTransfers, localStorage, removeTimers, completeTimers, workerQ,
                 crashed, linkVars, sendVars, budgetVars, histVars>>

\* removeHistoryItem(id): the filtered list is set and stored
removeHistoryItem(p, id) ==
  /\ rt.stage = "history"
  /\ transferHistory' = [transferHistory EXCEPT ![p] = FilterHistory(@, id)]
  /\ localStorage' = [localStorage EXCEPT
                        ![p] = Stored(Json(FilterHistory(transferHistory[p], id)))]
  /\ rt' = HistOps(rt.appends, rt.removes + 1, rt.clears)
  /\ UNCHANGED <<activeTransfers, removeTimers, completeTimers, workerQ, crashed,
                 linkVars, sendVars, budgetVars, histVars>>

\* a clearHistory that empties the list and leaves the stored item
clearHistoryInMemory(p) ==
  /\ rt.stage = "history"
  /\ transferHistory' = [transferHistory EXCEPT ![p] = << >>]
  /\ rt' = HistOps(rt.appends, rt.removes, rt.clears + 1)
  /\ UNCHANGED <<activeTransfers, localStorage, removeTimers, completeTimers, workerQ,
                 crashed, linkVars, sendVars, budgetVars, histVars>>

\* clearHistory: setTransferHistory([]) and localStorage.removeItem
clearHistory(p) ==
  /\ rt.stage = "history"
  /\ transferHistory' = [transferHistory EXCEPT ![p] = << >>]
  /\ localStorage' = [localStorage EXCEPT ![p] = Absent]
  /\ rt' = HistOps(rt.appends, rt.removes, rt.clears + 1)
  /\ UNCHANGED <<activeTransfers, removeTimers, completeTimers, workerQ, crashed,
                 linkVars, sendVars, budgetVars, histVars>>

\* ---------------------------------------------------------- specification

\* both pages just mounted with an empty stored history, connection open
Init ==
  /\ activeTransfers = [p \in Peers |-> << >>]
  /\ transferHistory = [p \in Peers |-> << >>]
  /\ localStorage = [p \in Peers |-> Absent]
  /\ connOpen = TRUE
  /\ net = [p \in Peers |-> EmptyBag]
  /\ job = [s \in Sends |-> IdleJob]
  /\ removeTimers = [p \in Peers |-> EmptyBag]
  /\ completeTimers = [p \in Peers |-> << >>]
  /\ workerQ = [p \in Peers |-> << >>]
  /\ now = 0
  /\ crashed = [p \in Peers |-> FALSE]
  /\ events = 0
  /\ assembleCalls = EmptyBag
  /\ cancelledMid = {}
  /\ orphanTimers = [p \in Peers |-> EmptyBag]
  /\ emitted = [s \in Sends |-> 0]
  /\ cancelMark = [s \in Sends |-> -1]
  /\ handed = [s \in Sends |-> << >>]
  /\ rt = RTIdle

\* the steps of page p, whatever the message, timer or record they are about
DeliverAny(p) ==
  \E msg \in BagToSet(net[p]) : \E keep \in BOOLEAN : Deliver(p, msg, keep)
RemoveTimerAny(p) == \E id \in BagToSet(removeTimers[p]) : RemoveTimerFires(p, id)
PauseClick(p) == \E i \in DOMAIN activeTransfers[p] : pauseTransfer(p, i)
ResumeClick(p) == \E i \in DOMAIN activeTransfers[p] : resumeTransfer(p, i)
CancelClick(p) == \E i \in DOMAIN activeTransfers[p] : cancelTransfer(p, i)

Next ==
  \/ \E name \in Names, size \in 1..MaxSize : SendFileChunks(name, size)
  \/ \E name \in Names, keepsConst \in BOOLEAN : SendFileEmpty(name, keepsConst)
  \/ \E s \in Sends : ReadLoaded(s)
  \/ \E s \in Sends : ReadError(s)
  \/ \E s \in Sends : processNextChunkRead(s)
  \/ \E s \in Sends : processNextChunkComplete(s)
  \/ \E p \in Peers : DeliverAny(p)
  \/ \E p \in Peers : handleCompleteFileReceived(p)
  \/ \E p \in Peers : \E fails \in BOOLEAN : WorkerReply(p, fails)
  \/ \E p \in Peers : RemoveTimerAny(p)
  \/ \E p \in Peers : PauseClick(p)
  \/ \E p \in Peers : ResumeClick(p)
  \/ \E p \in Peers : CancelClick(p)
  \/ Close
  \/ Tick

Spec == Init /\ [][Next]_vars

\* the pages stay as mounted; one byte sequence is chunked and assembled
RTInit ==
  /\ activeTransfers = [p \in Peers |-> << >>]
  /\ transferHistory = [p \in Peers |-> << >>]
  /\ localStorage = [p \in Peers |-> Absent]
  /\ connOpen = TRUE
  /\ net = [p \in Peers |-> EmptyBag]
  /\ job = [s \in Sends |-> IdleJob]
  /\ removeTimers = [p \in Peers |-> EmptyBag]
  /\ completeTimers = [p \in Peers |-> << >>]
  /\ workerQ = [p \in Peers |-> << >>]
  /\ now = 0
  /\ crashed = [p \in Peers |-> FALSE]
  /\ events = 0
  /\ assembleCalls = EmptyBag
  /\ cancelledMid = {}
  /\ orphanTimers = [p \in Peers |-> EmptyBag]
  /\ emitted = [s \in Sends |-> 0]
  /\ cancelMark = [s \in Sends |-> -1]
  /\ handed = [s \in Sends |-> << >>]
  /\ \E c \in 1..RTMaxChunk : \E n \in RTSizes(c) : \E seed \in 0..RTMaxSeed :
        rt = RTStart(c, n, seed)

RTNext ==
  \/ RTChunk
  \/ RTAssemble

RTSpec == RTInit /\ [][RTNext]_vars


\* the pages stay as mounted; one receiving record takes the chunk messages of
\* its file in any order
RecvInit ==
  /\ activeTransfers = [p \in Peers |-> << >>]
  /\ transferHistory = [p \in Peers |-> << >>]
  /\ localStorage = [p \in Peers |-> Absent]
  /\ connOpen = TRUE
  /\ net = [p \in Peers |-> EmptyBag]
  /\ job = [s \in Sends |-> IdleJob]
  /\ removeTimers = [p \in Peers |-> EmptyBag]
  /\ completeTimers = [p \in Peers |-> << >>]
  /\ workerQ = [p \in Peers |-> << >>]
  /\ now = 0
  /\ crashed = [p \in Peers |-> FALSE]
  /\ events = 0
  /\ assembleCalls = EmptyBag
  /\ cancelledMid = {}
  /\ orphanTimers = [p \in Peers |-> EmptyBag]
  /\ emitted = [s \in Sends |-> 0]
  /\ cancelMark = [s \in Sends |-> -1]
  /\ handed = [s \in Sends |-> << >>]
  /\ \E c \in 1..RTMaxChunk : \E n \in 1..(RecvMaxChunks * c) :
        \E seed \in 0..RTMaxSeed : rt = RecvStart(c, n, seed)

RecvNext ==
  \/ \E k \in 0..(RecvMaxChunks - 1) : \E same \in BOOLEAN : RecvChunk(k, same)
  \/ RecvComplete

RecvSpec == RecvInit /\ [][RecvNext]_vars

\* a transfer under way: sendFile was called on a file of two chunks, the
\* metadata message was delivered to B once and the transport kept a copy of it,
\* and the user of A clicked pause.  The budget MaxEvents counts from here.
LateInit ==
  LET name == "a.txt"
      size == ChunkSize + 1
      j == [phase |-> "reading", currentChunk |-> 0, name |-> name, size |-> size,
            startTime |-> 0, totalChunks |-> TotalChunks(size, ChunkSize)]
      meta == Metadata(1, name, size, j.totalChunks)
  IN /\ activeTransfers =
          [p \in Peers |->
             IF p = "A"
             THEN SetPaused(AssignId(<<NewSending(name, size, 0)>>, j, meta), 1, 0)
             ELSE handleMetadata(<< >>, meta, 0)]
     /\ transferHistory = [p \in Peers |-> << >>]
     /\ localStorage = [p \in Peers |-> Absent]
     /\ connOpen = TRUE
     /\ net = [p \in Peers |->
                 IF p = "B" THEN SetToBag({MetadataMsg(meta), ControlMsg(1, "pause")})
                 ELSE EmptyBag]
     /\ job = [s \in Sends |-> IF s = 1 THEN j ELSE IdleJob]
     /\ removeTimers = [p \in Peers |-> EmptyBag]
     /\ completeTimers = [p \in Peers |-> << >>]
     /\ workerQ = [p \in Peers |-> << >>]
     /\ now = 0
     /\ crashed = [p \in Peers |-> FALSE]
     /\ events = 0
     /\ assembleCalls = EmptyBag
     /\ cancelledMid = {}
     /\ orphanTimers = [p \in Peers |-> EmptyBag]
  /\ orphanTimers = [p \in Peers |-> EmptyBag]
     /\ emitted = [s \in Sends |-> 0]
     /\ cancelMark = [s \in Sends |-> -1]
     /\ handed = [s \in Sends |-> IF s = 1 THEN <<Handed(MetadataMsg(meta))>> ELSE << >>]
     /\ rt = RTIdle

\* the steps of the pages once the file has been chosen
LateNext ==
  \/ \E s \in Sends : ReadLoaded(s)
  \/ \E s \in Sends : ReadError(s)
  \/ \E s \in Sends : processNextChunkRead(s)
  \/ \E s \in Sends : processNextChunkComplete(s)
  \/ \E p \in Peers : DeliverAny(p)
  \/ \E p \in Peers : handleCompleteFileReceived(p)
  \/ \E p \in Peers : \E fails \in BOOLEAN : WorkerReply(p, fails)
  \/ \E p \in Peers : RemoveTimerAny(p)
  \/ \E p \in Peers : PauseClick(p)
  \/ \E p \in Peers : ResumeClick(p)
  \/ \E p \in Peers : CancelClick(p)
  \/ Close

LateSpec == LateInit /\ [][LateNext]_vars

\* the pages stay as mounted; two receiving records of different ids take their
\* chunk and control messages in any interleaving
IsoInit ==
  /\ activeTransfers = [p \in Peers |-> << >>]
  /\ transferHistory = [p \in Peers |-> << >>]
  /\ localStorage = [p \in Peers |-> Absent]
  /\ connOpen = TRUE
  /\ net = [p \in Peers |-> EmptyBag]
  /\ job = [s \in Sends |-> IdleJob]
  /\ removeTimers = [p \in Peers |-> EmptyBag]
  /\ completeTimers = [p \in Peers |-> << >>]
  /\ workerQ = [p \in Peers |-> << >>]
  /\ now = 0
  /\ crashed = [p \in Peers |-> FALSE]
  /\ events = 0
  /\ assembleCalls = EmptyBag
  /\ cancelledMid = {}
  /\ orphanTimers = [p \in Peers |-> EmptyBag]
  /\ emitted = [s \in Sends |-> 0]
  /\ cancelMark = [s \in Sends |-> -1]
  /\ handed = [s \in Sends |-> << >>]
  /\ \E n1, n2 \in 1..IsoMaxSize : rt = IsoStart(n1, n2)

IsoNext ==
  \/ \E id \in IsoIds : \E k \in 0..(IsoMaxSize - 1) : IsoChunk(id, k)
  \/ \E id \in IsoIds : \E action \in Actions : IsoControl(id, action)
  \/ IsoComplete
  \/ \E id \in IsoIds : IsoRemove(id)

IsoSpec == IsoInit /\ [][IsoNext]_vars

\* the files given to the Chunker: every size up to CkMaxChunks chunks for the
\* scaled-down chunk sizes, and 50000 bytes for the chunk size of the code
CkInputs ==
  {<<c, n>> : c \in 1..CkMaxChunk, n \in 0..(CkMaxChunks * CkMaxChunk)}
  \cup {<<ChunkSize16K, 50000>>}

\* the pages stay as mounted; chunkFile is called on one file
CkInit ==
  /\ activeTransfers = [p \in Peers |-> << >>]
  /\ transferHistory = [p \in Peers |-> << >>]
  /\ localStorage = [p \in Peers |-> Absent]
  /\ connOpen = TRUE
  /\ net = [p \in Peers |-> EmptyBag]
  /\ job = [s \in Sends |-> IdleJob]
  /\ removeTimers = [p \in Peers |-> EmptyBag]
  /\ completeTimers = [p \in Peers |-> << >>]
  /\ workerQ = [p \in Peers |-> << >>]
  /\ now = 0
  /\ crashed = [p \in Peers |-> FALSE]
  /\ events = 0
  /\ assembleCalls = EmptyBag
  /\ cancelledMid = {}
  /\ orphanTimers = [p \in Peers |-> EmptyBag]
  /\ emitted = [s \in Sends |-> 0]
  /\ cancelMark = [s \in Sends |-> -1]
  /\ handed = [s \in Sends |-> << >>]
  /\ \E in \in CkInputs : \E seed \in 0..1 :
        /\ in[2] <= CkMaxChunks * in[1]
        /\ rt = CkStart(in[1], in[2], seed)

CkNext ==
  \/ CkLoaded
  \/ CkReadError
  \/ CkTimer

CkSpec == CkInit /\ [][CkNext]_vars

\* the pages stay as mounted; one page sends up to SndMaxFiles files, the
\* callbacks of their chunkFile calls in any interleaving
SndInit ==
  /\ activeTransfers = [p \in Peers |-> << >>]
  /\ transferHistory = [p \in Peers |-> << >>]
  /\ localStorage = [p \in Peers |-> Absent]
  /\ connOpen = TRUE
  /\ net = [p \in Peers |-> EmptyBag]
  /\ job = [s \in Sends |-> IdleJob]
  /\ removeTimers = [p \in Peers |-> EmptyBag]
  /\ completeTimers = [p \in Peers |-> << >>]
  /\ workerQ = [p \in Peers |-> << >>]
  /\ now = 0
  /\ crashed = [p \in Peers |-> FALSE]
  /\ events = 0
  /\ assembleCalls = EmptyBag
  /\ cancelledMid = {}
  /\ orphanTimers = [p \in Peers |-> EmptyBag]
  /\ emitted = [s \in Sends |-> 0]
  /\ cancelMark = [s \in Sends |-> -1]
  /\ handed = [s \in Sends |-> << >>]
  /\ \E receiving \in BOOLEAN : rt = SndStart(receiving)

SndNext ==
  \/ \E name \in SndNames : \E size \in 1..SndMaxSize : SndSendFile(name, size)
  \/ SndTick
  \/ \E s \in 1..SndMaxFiles : SndLoaded(s)
  \/ \E s \in 1..SndMaxFiles : SndReadError(s)
  \/ \E s \in 1..SndMaxFiles : SndTimer(s)
  \/ \E id \in 1..SndMaxFiles : SndRemove(id)

SndSpec == SndInit /\ [][SndNext]_vars

\* page A just mounted and the load effect has run: the stored item is absent,
\* or holds the list an earlier session stored and the history is that list
HistInit ==
  /\ activeTransfers = [p \in Peers |-> << >>]
  /\ \E old \in {<< >>} \cup {<<r>> : r \in HistRecords} :
        /\ localStorage = [p \in Peers |-> IF p = "A" /\ old # << >>
                                           THEN Stored(Json(old)) ELSE Absent]
        /\ transferHistory = [p \in Peers |-> IF p = "A" THEN Json(old) ELSE << >>]
  /\ connOpen = TRUE
  /\ net = [p \in Peers |-> EmptyBag]
  /\ job = [s \in Sends |-> IdleJob]
  /\ removeTimers = [p \in Peers |-> EmptyBag]
  /\ completeTimers = [p \in Peers |-> << >>]
  /\ workerQ = [p \in Peers |-> << >>]
  /\ now = 0
  /\ crashed = [p \in Peers |-> FALSE]
  /\ events = 0
  /\ assembleCalls = EmptyBag
  /\ cancelledMid = {}
  /\ orphanTimers = [p \in Peers |-> EmptyBag]
  /\ emitted = [s \in Sends |-> 0]
  /\ cancelMark = [s \in Sends |-> -1]
  /\ handed = [s \in Sends |-> << >>]
  /\ rt = HistOps(0, 0, 0)

HistNext ==
  \/ \E record \in HistRecords : HistAppend("A", record)
  \/ \E id \in 1..HistMaxId : removeHistoryItem("A", id)
  \/ clearHistory("A")

HistSpec == HistInit /\ [][HistNext]_vars

\* the pages stay as mounted; one receiving record takes chunk messages of
\* any index
IdxInit ==
  /\ activeTransfers = [p \in Peers |-> << >>]
  /\ transferHistory = [p \in Peers |-> << >>]
  /\ localStorage = [p \in Peers |-> Absent]
  /\ connOpen = TRUE
  /\ net = [p \in Peers |-> EmptyBag]
  /\ job = [s \in Sends |-> IdleJob]
  /\ removeTimers = [p \in Peers |-> EmptyBag]
  /\ completeTimers = [p \in Peers |-> << >>]
  /\ workerQ = [p \in Peers |-> << >>]
  /\ now = 0
  /\ crashed = [p \in Peers |-> FALSE]
  /\ events = 0
  /\ assembleCalls = EmptyBag
  /\ cancelledMid = {}
  /\ orphanTimers = [p \in Peers |-> EmptyBag]
  /\ emitted = [s \in Sends |-> 0]
  /\ cancelMark = [s \in Sends |-> -1]
  /\ handed = [s \in Sends |-> << >>]
  /\ \E n \in 1..(IdxMaxChunks * ChunkSize) : \E seed \in 0..1 : rt = IdxStart(n, seed)

IdxNext ==
  \/ \E k \in 0..IdxMaxIndex : IdxChunk(k)
  \/ IdxComplete

IdxSpec == IdxInit /\ [][IdxNext]_vars

\* the transport delivers a message to page p, a chunk message only after the
\* metadata message of its file was handled there
FlowDeliver(p) ==
  \E msg \in BagToSet(net[p]) : \E keep \in BOOLEAN :
     /\ msg.kind = "chunk" =>
           \/ \E i \in DOMAIN activeTransfers[p] : activeTransfers[p][i].id = msg.fileId
           \/ \E i \in DOMAIN transferHistory[p] : transferHistory[p][i].id = msg.fileId
     /\ Deliver(p, msg, keep)

\* the undisturbed transfer of files that have a chunk: the connection stays
\* open, no read fails, the worker answers, no user clicks pause, resume or
\* cancel; the transport may deliver a message more than once
FlowNext ==
  \/ \E name \in Names, size \in 1..MaxSize : SendFileChunks(name, size)
  \/ \E s \in Sends : ReadLoaded(s)
  \/ \E s \in Sends : processNextChunkRead(s)
  \/ \E s \in Sends : processNextChunkComplete(s)
  \/ \E p \in Peers : FlowDeliver(p)
  \/ \E p \in Peers : handleCompleteFileReceived(p)
  \/ \E p \in Peers : WorkerReply(p, FALSE)
  \/ \E p \in Peers : RemoveTimerAny(p)
  \/ Tick

FlowSpec == Init /\ [][FlowNext]_vars

\* ------------------------------------------------------------- claims C1-C5
Terminal == {"completed", "cancelled", "error"}

\* the receiving records of page p
Receiving(p) == {i \in DOMAIN activeTransfers[p] :
                   activeTransfers[p][i].direction = "receiving"}

\* the step delivers msg to page p
Delivered(p, msg) == \E keep \in BOOLEAN : Deliver(p, msg, keep)

\* C1: pause does not drop data: a chunk message that arrives for a paused
\* receiving record is inserted into that record's index -> data mapping
C1_PausedKeepsChunks ==
  [][\A p \in Peers : \A msg \in BagToSet(net[p]) :
       (msg.kind = "chunk" /\ Delivered(p, msg)) =>
         \A i \in Receiving(p) :
            (activeTransfers[p][i].id = msg.fileId
               /\ activeTransfers[p][i].status = "paused")
            => msg.index \in MapKeys(activeTransfers'[p][i].chunks)]_vars

\* C2: completion by cardinality: a receiving record is completed if and only if
\* the size of its chunk mapping equals metadata.totalChunks
C2_CompletedIffAllChunks ==
  \A p \in Peers : \A i \in Receiving(p) :
     LET t == activeTransfers[p][i]
     IN t.status = "completed" <=> MapSize(t.chunks) = t.metadata.totalChunks

\* C3: at most one live record per fileId: no two records of an active list
\* share a non-empty id
C3_OneRecordPerId ==
  \A p \in Peers : \A i, k \in DOMAIN activeTransfers[p] :
     (i # k /\ activeTransfers[p][i].id # NoId)
     => activeTransfers[p][i].id # activeTransfers[p][k].id

\* C4: terminal states are final with respect to control messages: a control
\* message delivered for a completed, cancelled or error record leaves the
\* record's status unchanged
C4_TerminalIgnoresControl ==
  [][\A p \in Peers : \A msg \in BagToSet(net[p]) :
       (msg.kind = "control" /\ Delivered(p, msg)) =>
         \A i \in DOMAIN activeTransfers[p] :
            activeTransfers[p][i].status \in Terminal
            => activeTransfers'[p][i].status = activeTransfers[p][i].status]_vars

\* C5: the Assembler is invoked at most once per fileId
C5_AssembleAtMostOnce ==
  \A p \in Peers : \A id \in 1..MaxSends : CopiesIn(<<p, id>>, assembleCalls) <= 1


\* ------------------------------------------------------------ claims C6-C10
\* nothing is pending: no message in flight, no timer, no worker request, no
\* slice read or chunk timer
Quiescent ==
  /\ \A p \in Peers : /\ net[p] = EmptyBag
                      /\ removeTimers[p] = EmptyBag
                      /\ completeTimers[p] = << >>
                      /\ workerQ[p] = << >>
  /\ \A s \in Sends : job[s].phase \notin {"reading", "timer"}

\* page p has a received history record of the id with these bytes
HasReceived(p, id, bytes) ==
  \E i \in DOMAIN transferHistory[p] :
     /\ transferHistory[p][i].id = id
     /\ transferHistory[p][i].direction = "received"
     /\ transferHistory[p][i].bytes = bytes

\* C6: zero-byte file: when an empty file has been sent, nothing interfered and
\* nothing is pending any more, totalChunks has its fixed value and the receiver
\* has produced the 0-byte result
C6_EmptyFileReceived ==
  \A s \in Sends :
     (job[s].phase # "idle" /\ job[s].size = 0 /\ events = 0 /\ Quiescent)
     => /\ job[s].totalChunks = 0
        /\ HasReceived("B", s, << >>)

\* C7: cooperative cancellation on the sender: after the sending record was
\* cancelled at most one more chunk message is sent
C7_SenderStopsAfterCancel ==
  \A s \in Sends : cancelMark[s] >= 0 => emitted[s] <= cancelMark[s] + 1

\* C8: cancel mid-transfer: after a cancel message was processed for a receiving
\* record that was transferring with fewer than totalChunks chunks, the
\* Assembler is never invoked for that fileId, and the step that processes the
\* message leaves the record cancelled with its removal timer set
C8_CancelMidTransfer ==
  /\ \A p \in Peers : \A id \in 1..MaxSends :
        <<p, id>> \in cancelledMid => CopiesIn(<<p, id>>, assembleCalls) = 0
  /\ \A p \in Peers : \A id \in 1..MaxSends :
        (<<p, id>> \in cancelledMid /\ ~ BagIn(id, removeTimers[p]))
        => \A i \in DOMAIN activeTransfers[p] :
              activeTransfers[p][i].id = id => activeTransfers[p][i].status # "cancelled"

C10_RoundTrip ==
  rt.stage = "assembled" => (rt.ok /\ rt.data = rt.bytes)

\* a sequence of length 10*C+7 has been chunked and assembled
C10_Witness ==
  /\ rt.stage = "assembled"
  /\ Len(rt.bytes) = 10 * rt.chunkSize + 7
  /\ rt.totalChunks > 10


\* ----------------------------------------------------------- claims C11-C20
\* the mapping that holds every chunk of the byte sequence under its index
FullMapping(bytes, c) ==
  {<<k, ChunkData(bytes, k, c)>> : k \in 0..(TotalChunks(Len(bytes), c) - 1)}

\* C11: order independence: whatever the order in which the chunk messages of a
\* transfer were delivered, the final chunk mapping holds the same entries and
\* the Assembler gives out the same byte sequence, the bytes of the file
C11_OrderIndependent ==
  (rt.stage = "assembled" /\ ~rt.altered) =>
     /\ {rt.list[1].chunks[i] : i \in DOMAIN rt.list[1].chunks}
          = FullMapping(rt.bytes, rt.chunkSize)
     /\ rt.ok /\ rt.data = rt.bytes

\* a 4-chunk transfer whose chunks arrived in the order 2, 0, 3, 1 was assembled
C11_Witness ==
  /\ rt.stage = "assembled"
  /\ rt.totalChunks = 4
  /\ rt.order = <<2, 0, 3, 1>>

\* C12: idempotent insertion: a chunk message whose index is already in the
\* mapping of a transferring record changes neither the size of the mapping nor
\* the progress nor the completion decision, and when every such duplicate
\* carried the data of the first delivery the assembled bytes are the bytes of
\* the file, as they are without the duplicate
C12_IdempotentInsertion ==
  /\ [][\A k \in 0..(RecvMaxChunks - 1) : \A same \in BOOLEAN :
          (/\ RecvChunk(k, same)
           /\ rt.list[1].status = "transferring"
           /\ k \in MapKeys(rt.list[1].chunks))
          => /\ MapSize(rt'.list[1].chunks) = MapSize(rt.list[1].chunks)
             /\ PctEq(rt'.list[1].progress, rt.list[1].progress)
             /\ AllChunksReceived(rt'.list[1]) = AllChunksReceived(rt.list[1])]_vars
  /\ []((rt.stage = "assembled" /\ rt.reinserted > 0 /\ ~rt.altered)
           => (rt.ok /\ rt.data = rt.bytes))

\* a transfer was assembled after its record took a chunk a second time, with
\* the same data
C12_Witness ==
  /\ rt.stage = "assembled"
  /\ rt.reinserted > 0
  /\ ~rt.altered
  /\ rt.totalChunks > 1

\* C13: progress monotonicity: the progress of a receiving record never
\* decreases in a step that handles a message or a completion timer, it is
\* (mapping size / totalChunks) * 100 after each accepted chunk, and it is 100
\* whenever the status of the record is completed
C13_ProgressMonotonic ==
  /\ [][\A p \in Peers :
          Len(activeTransfers'[p]) >= Len(activeTransfers[p]) =>
            \A i \in Receiving(p) :
               PctLeq(activeTransfers[p][i].progress, activeTransfers'[p][i].progress)]_vars
  /\ [][\A p \in Peers : \A msg \in BagToSet(net[p]) :
          (msg.kind = "chunk" /\ Delivered(p, msg)) =>
            \A i \in Receiving(p) :
               TakesChunk(activeTransfers[p][i], msg) =>
                 LET u == activeTransfers'[p][i]
                 IN PctEq(u.progress, Pct(MapSize(u.chunks), u.metadata.totalChunks))]_vars
  /\ [](\A p \in Peers : \A i \in Receiving(p) :
          activeTransfers[p][i].status = "completed"
          => PctEq(activeTransfers[p][i].progress, Pct100))

\* the records of a list whose id differs from id
OtherRecords(list, id) == SelectSeq(list, LAMBDA t : t.id # id)

\* C14: per-transfer isolation on the receiver: handling a chunk or control
\* message of fileId X leaves every record of another id unchanged, the mapping
\* of a record holds only chunks of its own file, a completed record holds
\* exactly the chunks of its own file, and what is assembled for an id is the
\* bytes of its own file
C14_ReceiverIsolation ==
  /\ [][\A id \in IsoIds :
          ((\E k \in 0..(IsoMaxSize - 1) : IsoChunk(id, k))
             \/ (\E action \in Actions : IsoControl(id, action)))
          => OtherRecords(rt'.list, id) = OtherRecords(rt.list, id)]_vars
  /\ [](rt.stage = "two" =>
          \A i \in DOMAIN rt.list :
             LET t == rt.list[i]
                 entries == {t.chunks[e] : e \in DOMAIN t.chunks}
                 own == FullMapping(rt.files[t.id], rt.chunkSize)
             IN /\ entries \subseteq own
                /\ t.status = "completed" => entries = own)
  /\ [](rt.stage = "two" =>
          \A id \in IsoIds :
             rt.out[id].done => (rt.out[id].ok /\ rt.out[id].data = rt.files[id]))

\* two files of two chunks each were received with their chunks interleaved,
\* both records are completed and both files assembled
C14_Witness ==
  /\ rt.stage = "two"
  /\ Len(rt.order) = 4
  /\ rt.order[1][1] # rt.order[2][1]
  /\ rt.order[2][1] # rt.order[3][1]
  /\ rt.order[3][1] # rt.order[4][1]
  /\ Len(rt.list) = 2
  /\ \A i \in DOMAIN rt.list : rt.list[i].status = "completed"
  /\ \A id \in IsoIds : rt.out[id].done

\* C15: a chunk message whose fileId matches no record of the active list, or
\* only records in a terminal status, is dropped: the list and every record in
\* it are unchanged (no record created, no error status) and no completion
\* timer is set
C15_UnknownChunkDropped ==
  [][\A p \in Peers : \A msg \in BagToSet(net[p]) :
       (/\ msg.kind = "chunk"
        /\ Delivered(p, msg)
        /\ \A i \in DOMAIN activeTransfers[p] :
              activeTransfers[p][i].id = msg.fileId
              => activeTransfers[p][i].status \in Terminal)
       => /\ activeTransfers'[p] = activeTransfers[p]
          /\ completeTimers'[p] = completeTimers[p]]_vars

\* the first chunk message was delivered to B before the metadata message: it
\* is gone from the transport and B's active list is still empty
C15_Witness ==
  /\ connOpen /\ events = 0
  /\ emitted[1] = 1
  /\ activeTransfers["B"] = << >>
  /\ \E msg \in BagToSet(net["B"]) : msg.kind = "metadata" /\ msg.metadata.id = 1
  /\ ~ \E msg \in BagToSet(net["B"]) : msg.kind = "chunk"

\* C16: a control message whose fileId matches no record of the active list is
\* a no-op: the list is unchanged when the message is handled and unchanged when
\* a timer set by such a message fires
C16_UnknownControlNoOp ==
  /\ [][\A p \in Peers : \A msg \in BagToSet(net[p]) :
          (/\ msg.kind = "control"
           /\ Delivered(p, msg)
           /\ ~ \E i \in DOMAIN activeTransfers[p] : activeTransfers[p][i].id = msg.fileId)
          => activeTransfers'[p] = activeTransfers[p]]_vars
  /\ [][\A p \in Peers : \A id \in BagToSet(removeTimers[p]) :
          (RemoveTimerFires(p, id) /\ OrphanFires(p, id))
          => activeTransfers'[p] = activeTransfers[p]]_vars

\* C17: the Chunker calls onChunkReady once per chunk in index order: the k-th
\* call carries index k - 1 and the fileId of the metadata chunkFile returned,
\* never more calls than totalChunks, and all of 0 .. totalChunks-1 once
\* onComplete has been called
C17_ChunksInIndexOrder ==
  rt.stage = "chunker" =>
     /\ \A i \in DOMAIN rt.calls : /\ rt.calls[i].index = i - 1
                                    /\ rt.calls[i].fileId = rt.metadata.id
     /\ Len(rt.calls) <= rt.metadata.totalChunks
     /\ rt.completes > 0 => Len(rt.calls) = rt.metadata.totalChunks

\* a file of at least three chunks was chunked to the end
C17_Witness ==
  /\ rt.stage = "chunker"
  /\ rt.completes = 1
  /\ Len(rt.calls) >= 3

\* C18: for every chunkFile call, onComplete and onError are called at most once
\* together, and exactly once together when the chunking has ended: either
\* onComplete once, after the last chunk, and never onError, or a slice read
\* failed, onError once, never onComplete and no chunk after it
C18_CompleteXorError ==
  rt.stage = "chunker" =>
     /\ rt.completes + rt.errors <= 1
     /\ (rt.phase \in {"done", "failed"}) <=> (rt.completes + rt.errors = 1)
     /\ rt.completes = 1 => /\ rt.phase = "done"
                            /\ rt.callsAtEnd = rt.metadata.totalChunks
                            /\ Len(rt.calls) = rt.callsAtEnd
     /\ rt.errors = 1 => /\ rt.phase = "failed"
                         /\ Len(rt.calls) = rt.callsAtEnd
                         /\ Len(rt.calls) < rt.metadata.totalChunks

\* the read of a later slice failed after at least one chunk was emitted
C18_Witness ==
  /\ rt.stage = "chunker"
  /\ rt.errors = 1
  /\ Len(rt.calls) >= 1

RECURSIVE SumLen(_)
\* the sum of the data lengths of a sequence of chunks
SumLen(chunks) ==
  IF chunks = << >> THEN 0 ELSE Len(Head(chunks).data) + SumLen(Tail(chunks))

\* the length the claim gives to chunk number i (1-based) of t chunks
ClaimedLen(i, t, n, c) == IF i < t THEN c ELSE n - (t - 1) * c

\* C19: totalChunks of the metadata is ceil(totalSize / chunkSize), every chunk
\* emitted has length chunkSize except the last, of length
\* totalSize - (totalChunks-1)*chunkSize, a chunking that completes emits
\* exactly totalChunks chunks whose lengths sum to totalSize, 50000 bytes at
\* chunk size 16384 give 4 chunks of lengths 16384, 16384, 16384, 848, and the
\* worker's chunkFile cuts the same chunks
C19_ChunkCountAndLengths ==
  rt.stage = "chunker" =>
     LET n == Len(rt.bytes)
         c == rt.chunkSize
         t == rt.metadata.totalChunks
         w == WorkerChunks(rt.bytes, c, 0, 0)
     IN /\ t * c >= n /\ (t - 1) * c < n /\ t >= 0
        /\ \A i \in DOMAIN rt.calls : Len(rt.calls[i].data) = ClaimedLen(i, t, n, c)
        /\ rt.completes = 1 => (Len(rt.calls) = t /\ SumLen(rt.calls) = n)
        /\ (rt.completes = 1 /\ c = ChunkSize16K /\ n = 50000)
           => /\ t = 4
              /\ [i \in DOMAIN rt.calls |-> Len(rt.calls[i].data)]
                   = <<16384, 16384, 16384, 848>>
        /\ Len(w) = t
        /\ \A i \in DOMAIN w : w[i].index = i - 1
                                 /\ Len(w[i].data) = ClaimedLen(i, t, n, c)

\* a file of 50000 bytes was chunked to the end with chunk size 16384
C19_Witness ==
  /\ rt.stage = "chunker"
  /\ rt.completes = 1
  /\ rt.chunkSize = ChunkSize16K
  /\ Len(rt.bytes) = 50000

\* C20: in every send, the metadata message of a fileId is passed to the
\* transport before any chunk message with that fileId
C20_MetadataBeforeChunks ==
  \A s \in Sends : \A i \in DOMAIN handed[s] :
     handed[s][i].kind = "chunk"
     => \E k \in 1..(i - 1) : /\ handed[s][k].kind = "metadata"
                              /\ handed[s][k].fileId = handed[s][i].fileId

\* a send has passed its metadata message and then both chunks of its file
C20_Witness ==
  \E s \in Sends :
     /\ Len(handed[s]) = 3
     /\ handed[s][1].kind = "metadata"
     /\ handed[s][3].kind = "chunk"
     /\ job[s].phase = "done"

\* ----------------------------------------------------------- claims C21-C30
\* C21: assembly error: when the Assembler fails for a fileId, the records of
\* that id get status error with an error message and their chunk mapping is
\* discarded; none is left in status completed
C21_AssemblyError ==
  [][\A p \in Peers :
       WorkerReply(p, TRUE) =>
         \A i \in DOMAIN activeTransfers'[p] :
            LET t == activeTransfers'[p][i]
            IN t.id = Head(workerQ[p]).fileId
               => /\ t.status = "error"
                  /\ t.error # ""
                  /\ t.chunks = EmptyMap]_vars

\* C22: read error: when a slice read of a send fails, the sending record of the
\* send gets status error and keeps the message, the chunking of the send stops
\* for good (no retry of the read) and no further chunk of it is sent
C22_ReadError ==
  /\ [][\A s \in Sends :
          (ReadError(s) /\ ~crashed["A"]) =>
            \A i \in DOMAIN activeTransfers["A"] :
               (activeTransfers["A"][i].id = s
                  /\ activeTransfers["A"][i].direction = "sending")
               => /\ activeTransfers'["A"][i].status = "error"
                  /\ activeTransfers'["A"][i].error # ""]_vars
  /\ [][\A s \in Sends :
          job[s].phase = "failed"
          => (job'[s] = job[s] /\ emitted'[s] = emitted[s] /\ handed'[s] = handed[s])]_vars

\* the read of the second slice failed: the record of the send is in error with
\* its message after one chunk was sent
C22_Witness ==
  \E s \in Sends :
     /\ job[s].phase = "failed"
     /\ emitted[s] = 1
     /\ \E i \in DOMAIN activeTransfers["A"] :
           /\ activeTransfers["A"][i].id = s
           /\ activeTransfers["A"][i].status = "error"
           /\ activeTransfers["A"][i].error = "Failed to read file chunk"

\* the statuses that are not terminal
NonTerminal == {"preparing", "transferring", "paused"}

\* C23: transport failure: once the data connection is closed no record is in
\* status preparing, transferring or paused (each went to error with a
\* connection-lost message), and no sending record becomes completed afterwards
C23_TransportFailure ==
  /\ [](~connOpen =>
          \A p \in Peers : \A i \in DOMAIN activeTransfers[p] :
             LET t == activeTransfers[p][i]
             IN /\ t.status \notin NonTerminal
                /\ t.status = "error" => t.error # "")
  /\ [][~connOpen =>
          \A i \in DOMAIN activeTransfers["A"] :
             (i \in DOMAIN activeTransfers'["A"]
                /\ activeTransfers["A"][i].direction = "sending"
                /\ activeTransfers["A"][i].status # "completed")
             => activeTransfers'["A"][i].status # "completed"]_vars

\* C24: every record that reaches a terminal status is eventually removed from
\* the active list: when nothing is pending any more (no message, no timer, no
\* worker request, no read) no record in a terminal status is left
C24_TerminalRemoved ==
  Quiescent =>
     \A p \in Peers : \A i \in DOMAIN activeTransfers[p] :
        activeTransfers[p][i].status \notin Terminal

\* the number of history records of page p for file id in the given direction
HistoryCount(p, id, direction) ==
  Cardinality({i \in DOMAIN transferHistory[p] :
                 /\ transferHistory[p][i].id = id
                 /\ transferHistory[p][i].direction = direction})

\* C25: a finished transfer adds exactly one history record: no page ever
\* holds two history records of one transfer in one direction
C25_HistoryOnce ==
  \A p \in Peers : \A id \in Sends :
     /\ HistoryCount(p, id, "received") <= 1
     /\ HistoryCount(p, id, "sent") <= 1

\* C26: a progress update, a completion or an error of the Chunker of one file
\* changes the progress, status and error of no record but the one its
\* sendFile call added
C26_SendIsolation ==
  [][\A s \in 1..SndMaxFiles :
       (SndLoaded(s) \/ SndReadError(s) \/ SndTimer(s)) =>
          \A i \in DOMAIN rt.list :
             i # rt.jobs[s].pos =>
                /\ rt'.list[i].progress = rt.list[i].progress
                /\ rt'.list[i].status = rt.list[i].status
                /\ rt'.list[i].error = rt.list[i].error]_vars

\* C27: the record a metadata message creates is receiving, transferring,
\* progress 0, receivedSize 0, no chunk; the record of sendFile is made
\* preparing with an empty id, and when sendFile has returned it is
\* transferring with the id and the metadata chunkFile made
C27_CreatedRecords ==
  /\ \A n \in Names : \A z \in 0..MaxSize : \A t \in 0..MaxTime :
        /\ NewSending(n, z, t).status = "preparing"
        /\ NewSending(n, z, t).id = NoId
        /\ NewSending(n, z, t).metadata.id = NoId
  /\ [][\A p \in Peers :
          (Len(activeTransfers'[p]) = Len(activeTransfers[p]) + 1 /\ ~crashed'[p]) =>
             LET r == activeTransfers'[p][Len(activeTransfers'[p])]
             IN IF r.direction = "receiving"
                THEN /\ r.status = "transferring"
                     /\ r.progress = Pct0
                     /\ r.receivedSize = 0
                     /\ r.chunks = EmptyMap
                     /\ r.id = r.metadata.id
                     /\ \E m \in DOMAIN net[p] :
                           m.kind = "metadata" /\ m.metadata = r.metadata
                ELSE /\ r.direction = "sending"
                     /\ r.status = "transferring"
                     /\ r.id \in Sends
                     /\ r.metadata.id = r.id
                     /\ r.metadata.totalChunks = TotalChunks(r.metadata.size, ChunkSize)
                     /\ job[r.id].phase = "idle"
                     /\ job'[r.id].phase # "idle"]_vars

\* both kinds of record were created: A's sending record has its id, B's
\* receiving record has no chunk yet
C27_Witness ==
  /\ \E i \in DOMAIN activeTransfers["A"] :
        /\ activeTransfers["A"][i].direction = "sending"
        /\ activeTransfers["A"][i].status = "transferring"
        /\ activeTransfers["A"][i].id \in Sends
  /\ \E i \in DOMAIN activeTransfers["B"] :
        /\ activeTransfers["B"][i].direction = "receiving"
        /\ activeTransfers["B"][i].status = "transferring"
        /\ activeTransfers["B"][i].chunks = EmptyMap

\* C28: every step that takes a record from transferring to paused, a local
\* pause or a received pause message, sets pausedAt on it
C28_PausedAtRecorded ==
  [][\A p \in Peers :
       Len(activeTransfers'[p]) = Len(activeTransfers[p]) =>
          \A i \in DOMAIN activeTransfers[p] :
             (/\ activeTransfers[p][i].status = "transferring"
              /\ activeTransfers'[p][i].status = "paused")
             => activeTransfers'[p][i].pausedAt # NoTime]_vars

\* C29: the k-th onProgress call of the Chunker comes with the k-th chunk and
\* carries (k / totalChunks) * 100; the values are strictly increasing, and
\* when onComplete is called for a file with chunks the last one was 100
C29_ProgressPerChunk ==
  rt.stage = "chunker" =>
     /\ Len(rt.progress) = Len(rt.calls)
     /\ \A k \in DOMAIN rt.progress : PctEq(rt.progress[k], Pct(k, rt.totalChunks))
     /\ \A k \in DOMAIN rt.progress :
           k > 1 => /\ PctLeq(rt.progress[k - 1], rt.progress[k])
                    /\ ~PctEq(rt.progress[k - 1], rt.progress[k])
     /\ (rt.completes > 0 /\ rt.totalChunks > 0)
          => /\ Len(rt.progress) = rt.totalChunks
             /\ PctEq(rt.progress[Len(rt.progress)], Pct100)
     /\ (rt.phase = "timer" /\ rt.currentChunk >= rt.totalChunks)
          => (rt.completes = 0 /\ PctEq(rt.progress[Len(rt.progress)], Pct100))

\* onComplete was called for a file of several chunks
C29_Witness ==
  /\ rt.stage = "chunker"
  /\ rt.completes = 1
  /\ Len(rt.progress) >= 3
  /\ PctEq(rt.progress[Len(rt.progress)], Pct100)
  /\ ~PctEq(rt.progress[1], Pct100)

\* C30: for one file at most one slice read is in flight, and nothing else of
\* its chain is pending with it: the read in flight is the read of chunk
\* currentChunk, started after every chunk before it was read and emitted
C30_OneReadPerFile ==
  rt.stage = "senders" =>
     \A s \in DOMAIN rt.jobs :
        /\ rt.jobs[s].reads + rt.jobs[s].timers <= 1
        /\ rt.jobs[s].emitted = rt.jobs[s].currentChunk
        /\ rt.jobs[s].reads = 1 => rt.jobs[s].currentChunk < rt.jobs[s].totalChunks

\* slice reads of two files are in flight at the same time, one of them the
\* read of a second chunk
C30_Witness ==
  /\ rt.stage = "senders"
  /\ Len(rt.jobs) = 2
  /\ rt.jobs[1].reads = 1 /\ rt.jobs[1].currentChunk = 1 /\ rt.jobs[1].emitted = 1
  /\ rt.jobs[2].reads = 1

\* ---- claims C31-C39
\* the metadata chunkFile made for the file of sendFile call id
SentMetadata(id) == Metadata(id, job[id].name, job[id].size, job[id].totalChunks)

\* C31: the metadata of a receiving record is the metadata of the message that
\* created it, whatever chunk message, control message or timer came later,
\* and the completion timer and the request to the worker carry the same
C31_MetadataFixed ==
  \A p \in Peers :
     /\ \A i \in DOMAIN activeTransfers[p] :
           LET t == activeTransfers[p][i]
           IN t.direction = "receiving" =>
                 (t.id \in Sends /\ t.metadata = SentMetadata(t.id))
     /\ \A i \in DOMAIN completeTimers[p] :
           LET t == completeTimers[p][i]
           IN t.id \in Sends /\ t.metadata = SentMetadata(t.id)
     /\ \A i \in DOMAIN workerQ[p] :
           workerQ[p][i].metadata = SentMetadata(workerQ[p][i].fileId)

\* a receiving record that took a chunk and then a pause message, with a chunk
\* still to come
C31_Witness ==
  \E i \in DOMAIN activeTransfers["B"] :
     LET t == activeTransfers["B"][i]
     IN /\ t.direction = "receiving"
        /\ MapSize(t.chunks) = 1
        /\ t.metadata.totalChunks = 2
        /\ t.status = "paused"

\* C32: an undisturbed transfer of a file with a chunk ends well: when nothing
\* is pending any more the send is done and in A's history as sent, and B's
\* history holds one received record of it, with the bytes of the file
C32_EndToEnd ==
  \A s \in Sends :
     (job[s].phase # "idle" /\ Quiescent) =>
        /\ job[s].phase = "done"
        /\ HistoryCount("A", s, "sent") = 1
        /\ HasReceived("B", s, Content(job[s].name, job[s].size))
        /\ HistoryCount("B", s, "received") = 1

RECURSIVE MapBytes(_)
\* the sum of the byte lengths of the values of a chunk mapping
MapBytes(m) == IF m = << >> THEN 0 ELSE Len(Head(m)[2]) + MapBytes(Tail(m))

\* C33: receivedSize of a receiving record is the sum of the byte lengths of
\* the chunks in its mapping and is at most metadata.size
C33_ReceivedSize ==
  \A p \in Peers : \A i \in Receiving(p) :
     /\ activeTransfers[p][i].receivedSize = MapBytes(activeTransfers[p][i].chunks)
     /\ activeTransfers[p][i].receivedSize <= activeTransfers[p][i].metadata.size

\* C34: a sending record that is paused does not go on: while it stays paused
\* its progress does not change and no chunk of its file is handed to the
\* transport, and it does not go from paused to completed
C34_PausedSendStands ==
  [][Len(activeTransfers'["A"]) = Len(activeTransfers["A"]) =>
       \A i \in DOMAIN activeTransfers["A"] :
          LET t == activeTransfers["A"][i]
              u == activeTransfers'["A"][i]
          IN (t.direction = "sending" /\ t.status = "paused" /\ t.id \in Sends) =>
                /\ u.status # "completed"
                /\ u.status = "paused" =>
                      (u.progress = t.progress /\ emitted'[t.id] = emitted[t.id])]_vars

\* page p holds a cancelled record of the id
HoldsCancelled(p, id) ==
  \E i \in DOMAIN activeTransfers[p] :
     activeTransfers[p][i].id = id /\ activeTransfers[p][i].status = "cancelled"

\* C35: a cancelled transfer is not recorded as finished: while a page holds a
\* cancelled record of an id no history record of that id is added there, and
\* a cancelled record does not become completed
C35_CancelledNotFinished ==
  [][\A p \in Peers :
       /\ \A id \in Sends :
             HoldsCancelled(p, id) =>
                /\ HistoryCount(p, id, "sent")' = HistoryCount(p, id, "sent")
                /\ HistoryCount(p, id, "received")' = HistoryCount(p, id, "received")
       /\ Len(activeTransfers'[p]) = Len(activeTransfers[p]) =>
             \A i \in DOMAIN activeTransfers[p] :
                activeTransfers[p][i].status = "cancelled"
                => activeTransfers'[p][i].status # "completed"]_vars

\* C36: a send is completed and in the history as sent only if every one of
\* its totalChunks chunks was handed to the transport
C36_CompletedMeansAllHanded ==
  \A s \in Sends :
     (\/ HistoryCount("A", s, "sent") > 0
      \/ \E i \in DOMAIN activeTransfers["A"] :
            /\ activeTransfers["A"][i].id = s
            /\ activeTransfers["A"][i].direction = "sending"
            /\ activeTransfers["A"][i].status = "completed")
     => emitted[s] = job[s].totalChunks

\* C37: a receiving record that is completed, and every mapping handed to the
\* Assembler, has exactly the keys 0 .. totalChunks - 1: a chunk message with
\* an index outside that range does not count towards completion
C37_KeysAreTheIndices ==
  rt.stage = "indexed" =>
     /\ \A i \in DOMAIN rt.posted : rt.posted[i] = 0..(rt.totalChunks - 1)
     /\ \A i \in DOMAIN rt.list :
           rt.list[i].status = "completed"
           => MapKeys(rt.list[i].chunks) = 0..(rt.totalChunks - 1)

\* C38: the history of a page holds at most one record per transfer id
C38_OneRecordPerId ==
  \A p \in Peers : \A id \in Sends :
     Cardinality({i \in DOMAIN transferHistory[p] : transferHistory[p][i].id = id}) <= 1

\* the list kept in the stored item of page p, an absent item counting as empty
StoredList(p) == IF localStorage[p].present THEN localStorage[p].list ELSE << >>

\* C39: after any appends, removals and clears the stored item holds the
\* history list of the page as JSON, in the same order, and an absent item
\* goes with an empty history
C39_StoreMirrors ==
  \A p \in Peers : StoredList(p) = Json(transferHistory[p])

\* records were appended, one was removed and the history was cleared before,
\* and the history holds two records again
C39_Witness ==
  /\ rt.stage = "history"
  /\ rt.appends = 2 /\ rt.removes >= 1 /\ rt.clears >= 1
  /\ Len(transferHistory["A"]) = 2
  /\ localStorage["A"].present

====
